---------------------------- MODULE Spec2Model ----------------------------
(***************************************************************************)
(* The diary store of app.py: the JSON document diary_data.json, its      *)
(* in-memory cache, the fixed-name and timestamped backups, the recovery  *)
(* from backup, and the create / update / delete / list handlers.         *)
(*                                                                         *)
(* Time is counted in ticks, TicksPerSecond to the second.  A handler that *)
(* stamps an entry (datetime.now().isoformat(), microsecond resolution)    *)
(* runs one tick after the previous one, so stamps strictly increase;      *)
(* Elapse lets CACHE_DURATION seconds pass between two requests.           *)
(***************************************************************************)
EXTENDS Integers, Sequences, FiniteSets, TLC

\* ---------------------------------------------------------------- bounds
MaxTicks == 2
MaxElapse == 1
MaxPage == 2
MaxOld == 11
MaxOldBackups == 11
TicksPerSecond == 2

\* ------------------------------------------------------ program constants
CACHE_DURATION == 30
max_backups == 10
DefaultPerPage == 10
MaxPerPage == 100
MaxCropType == 100
MaxGrowthStage == 50
MaxObservations == 2000
MaxWeather == 200
MaxLocation == 200
MaxUserNotes == 1000
MaxActions == 20
MaxActionLen == 100
MaxPhotos == 10
MaxPhotoLen == 500

\* ------------------------------------------------------------- the state
VARIABLES
    now,        \* the clock, in ticks
    fs_gran,    \* the file system's modification-time granularity, in ticks
    primary,    \* diary_data.json
    backup,     \* diary_data.json.backup
    tsbackups,  \* diary_data.json.backup_<YYYYMMDD_HHMMSS>
    archives,   \* diary_data.json.corrupted_<YYYYMMDD_HHMMSS>
    tmp,        \* diary_data.json.tmp
    cache,      \* _diary_cache
    uuids,      \* how many uuid4() values have been stored so far
    deleted,    \* the ids deleted successfully so far
    restored,   \* those of them deleted before the latest restore from backup
    settled,    \* TRUE from a successful mutation until the next write attempt
    last,       \* the last request and what it returned
    pc,         \* where a save_diary_entry in progress stands
    job         \* what that save is writing

vars == <<now, fs_gran, primary, backup, tsbackups, archives, tmp, cache,
          uuids, deleted, restored, settled, last, pc, job>>

None == -1

\* -------------------------------------------------------- files, documents
\* A file: whether it exists, what it holds, and its st_mtime.
NoData == [kind |-> "none"]

Absent == [exists |-> FALSE, data |-> NoData, mtime |-> None]

File(data, m) == [exists |-> TRUE, data |-> data, mtime |-> m]

\* Content json.load rejects (JSONDecodeError); the tag tells contents apart.
Bad(tag) == [kind |-> "bad", tag |-> tag]

\* Content json.load accepts: the document {entries, metadata}.
Json(doc) == [kind |-> "doc", doc |-> doc]

Parses(f) == f.exists /\ f.data.kind = "doc"

\* {"entries": [...], "metadata": {"total_entries": n, ["error": ...]}}.
\* metadata.last_updated and metadata.version are written and never read;
\* they are left out.
Doc(entries, total) ==
    [entries |-> entries, has_meta |-> TRUE, total_entries |-> total,
     error |-> "none"]

\* An error structure without the error annotation.
ErrorDocUnmarked(err) ==
    [entries |-> <<>>, has_meta |-> TRUE, total_entries |-> 0,
     error |-> "none"]

\* What load_diary_entries returns when it cannot read the document.
ErrorDoc(err) ==
    [entries |-> <<>>, has_meta |-> TRUE, total_entries |-> 0, error |-> err]

\* os.path.getmtime of a file written at tick t.
WriteMTime(t) == (t \div fs_gran) * fs_gran

\* strftime('%Y%m%d_%H%M%S'): the second a tick falls in.
SecondOf(t) == t \div TicksPerSecond

get_file_modified_time(f) == IF f.exists THEN f.mtime ELSE None

\* _diary_cache after invalidate_diary_cache(): data, last_modified and
\* cache_time are all None.
EmptyCache == [data |-> NoData, last_modified |-> None, cache_time |-> None]

\* The files and the cache as one value, so that a handler is a function
\* from the state it finds to the state it leaves and the result it returns.
Cur ==
    [now |-> now, primary |-> primary, backup |-> backup,
     tsbackups |-> tsbackups, archives |-> archives, tmp |-> tmp,
     cache |-> cache, uuids |-> uuids]

\* A directory entry name -> file, as a set of named files; copying onto an
\* existing name overwrites it.
Put(files, name, f) ==
    {x \in files : x.name # name}
        \cup {[name |-> name, data |-> f.data, mtime |-> f.mtime]}

\* ------------------------------------------------------- backup, recovery
\* A save that makes no copy.
BackupSkipped(s, F) == s

\* shutil.copy2 keeps the source's content and st_mtime.  A fault leaves the
\* backup as it was; the caller only prints a warning.
create_backup_file(s, F) ==
    IF s.primary.exists /\ "backup" \notin F
    THEN [s EXCEPT !.backup = s.primary]
    ELSE s

\* A cleanup that sorts oldest first and keeps the head of the list.
CleanupOldestFirst(files) ==
    LET n == Cardinality(files)
        k == IF n < max_backups THEN n ELSE max_backups
    IN  {keep \in SUBSET files :
            /\ Cardinality(keep) = k
            /\ \A x \in keep, y \in files \ keep : x.mtime <= y.mtime}

\* Keeps the max_backups most recently modified; the sort decides ties by
\* glob order, which is any order.
cleanup_old_backups(files) ==
    LET n == Cardinality(files)
        k == IF n < max_backups THEN n ELSE max_backups
    IN  {keep \in SUBSET files :
            /\ Cardinality(keep) = k
            /\ \A x \in keep, y \in files \ keep : x.mtime >= y.mtime}

\* The states create_timestamped_backup may leave at tick t.
create_timestamped_backup(s, t, F) ==
    IF s.primary.exists /\ "tsbackup" \notin F
    THEN {[s EXCEPT !.tsbackups = keep] :
            keep \in cleanup_old_backups(
                        Put(s.tsbackups, SecondOf(t), s.primary))}
    ELSE {s}

\* A validation that accepts every file.
ValidateNothing(f) == TRUE

\* validate_json_file of a backup: the file name is not 'diary_data.json',
\* so the check is that the file exists and json.load accepts it.
validate_json_file(f) == Parses(f)

\* A recovery that archives the primary file after it was overwritten.
ArchiveRestored(s) == s.backup

\* shutil.copy2(filename, corrupted_backup): the archive is a copy of the
\* primary file as recovery finds it.
ArchiveSource(s) == s.primary

\* recover_from_backup('diary_data.json') at tick t.
recover_from_backup(s, t) ==
    IF ~s.backup.exists
    THEN [s |-> s, success |-> FALSE, error |-> "No backup file found"]
    ELSE IF ~validate_json_file(s.backup)
    THEN [s |-> s, success |-> FALSE,
          error |-> "Backup file is also corrupted"]
    ELSE [s |-> [s EXCEPT
                    !.archives = IF s.primary.exists
                                 THEN Put(@, SecondOf(t), ArchiveSource(s))
                                 ELSE @,
                    !.primary = s.backup,
                    !.cache = EmptyCache],
          success |-> TRUE, error |-> "none"]

\* datetime.strptime(date_str, '%Y-%m-%d') returns: the string is a date and
\* nothing more.  The dates of the model are days counted from today.
strptime(date_str) == date_str \in {"today-1", "today", "today+1"}

\* validate_diary_data_structure on the documents of the model: entries is
\* a list of records whose id, timestamp and date are well formed, so what
\* is left to fail is a required field that is the empty string.
validate_diary_data_structure(doc) ==
    \A i \in 1..Len(doc.entries) :
        /\ doc.entries[i].crop_type # ""
        /\ doc.entries[i].observations # ""
        /\ doc.entries[i].date # ""
        /\ strptime(doc.entries[i].date)

\* backup_files.sort(key=mtime, reverse=True); backup_files[0]: a backup no
\* other is newer than.
MostRecent(files) == {f \in files : \A g \in files : f.mtime >= g.mtime}

\* The timestamped backups a recovery may pick: the one named
\* backup_timestamp, or with none given a most recent one.
Selected(files, backup_timestamp) ==
    IF backup_timestamp = None THEN MostRecent(files)
    ELSE {f \in files : f.name = backup_timestamp}

AsFile(b) == File(b.data, b.mtime)

\* recover_from_timestamped_backup('diary_data.json', backup_timestamp) at
\* tick t: the possible outcomes, with the name of the backup picked.
recover_from_timestamped_backup(s, t, backup_timestamp) ==
    IF Selected(s.tsbackups, backup_timestamp) = {}
    THEN {[s |-> s, success |-> FALSE, error |-> "not found",
           picked |-> None]}
    ELSE {IF ~validate_json_file(AsFile(b))
          THEN [s |-> s, success |-> FALSE,
                error |-> "Selected backup file is corrupted",
                picked |-> b.name]
          ELSE [s |-> [s EXCEPT
                        !.archives = IF s.primary.exists
                                     THEN Put(@, SecondOf(t), ArchiveSource(s))
                                     ELSE @,
                        !.primary = AsFile(b),
                        !.cache = EmptyCache],
                success |-> TRUE, error |-> "none", picked |-> b.name]
          : b \in Selected(s.tsbackups, backup_timestamp)}

\* ------------------------------------------------------------------- load
CacheTicks == CACHE_DURATION * TicksPerSecond

\* A cache that still serves at the end of the window.
CacheIsFreshInclusive(s, t) ==
    /\ s.cache.data.kind = "doc"
    /\ s.cache.cache_time # None
    /\ t - s.cache.cache_time <= CacheTicks
    /\ s.cache.last_modified = get_file_modified_time(s.primary)

\* The cached document serves while it is younger than CACHE_DURATION and
\* the file's modification time is the one recorded with it.
CacheIsFresh(s, t) ==
    /\ s.cache.data.kind = "doc"
    /\ s.cache.cache_time # None
    /\ t - s.cache.cache_time < CacheTicks
    /\ s.cache.last_modified = get_file_modified_time(s.primary)

\* load_diary_entries() at tick t: the state it leaves, the document it
\* returns, and whether that document is the very object the cache holds
\* (the callers change it in place).
load_diary_entries(s, t) ==
    IF CacheIsFresh(s, t)
    THEN [s |-> s, ret |-> s.cache.data.doc, alias |-> TRUE, path |-> "cache"]
    ELSE IF ~s.primary.exists
    THEN [s |-> [s EXCEPT !.primary =
                    File(Json(Doc(<<>>, 0)), WriteMTime(t))],
          ret |-> Doc(<<>>, 0), alias |-> FALSE, path |-> "created"]
    ELSE IF ~Parses(s.primary)
    THEN LET r == recover_from_backup(s, t)
         IN  IF r.success
             THEN [s |-> r.s, ret |-> r.s.primary.data.doc,
                   alias |-> FALSE, path |-> "recovered"]
             ELSE [s |-> r.s, ret |-> ErrorDoc("JSON decode error"),
                   alias |-> FALSE, path |-> "error"]
    ELSE [s |-> [s EXCEPT !.cache =
                    [data |-> s.primary.data,
                     last_modified |-> get_file_modified_time(s.primary),
                     cache_time |-> t]],
          ret |-> s.primary.data.doc, alias |-> TRUE, path |-> "disk"]

\* ---------------------------------------------------------------- entries
\* The request fields the handlers read; "" is the empty string a missing
\* field defaults to.
Inputs ==
    {[crop_type |-> "Tomato", observations |-> "wilting"],
     [crop_type |-> "kale", observations |-> "wilting"],
     [crop_type |-> "", observations |-> "wilting"],
     [crop_type |-> "kale", observations |-> ""]}

\* str.lower() on the strings of the model.
Lower(str) ==
    CASE str = "Tomato" -> "tomato"
      [] str = "KALE" -> "kale"
      [] OTHER -> str

\* data.get(key, default): the fields a request does not carry are not in
\* its record.
Get(inp, key, default) == IF key \in DOMAIN inp THEN inp[key] ELSE default

\* datetime.fromisoformat(date_str).date(), in days from today, for a date
\* and for a date with a time of day; ValueError for anything else.
fromisoformat(date_str) ==
    CASE date_str = "today-1" -> [ok |-> TRUE, day |-> -1]
      [] date_str = "today" -> [ok |-> TRUE, day |-> 0]
      [] date_str = "today+1" -> [ok |-> TRUE, day |-> 1]
      [] date_str = "todayT10:00" -> [ok |-> TRUE, day |-> 0]
      [] OTHER -> [ok |-> FALSE, day |-> 0]

\* get_crop_category(crop_name): the key of the category whose crops hold
\* the lower-cased name, "custom" when none does.  Of the crops of the
\* model, tomato is in the table (vegetables) and kale is not.
get_crop_category(crop_name) ==
    IF Lower(crop_name) = "tomato" THEN "vegetables" ELSE "custom"

\* get_growth_stage_info(stage_key): the name of the stage in GROWTH_STAGES,
\* or the custom stage.
get_growth_stage_info(stage_key) ==
    CASE Lower(stage_key) = "seed" -> "Seed/Planting"
      [] Lower(stage_key) = "flowering" -> "Flowering"
      [] OTHER -> "Custom growth stage"

\* An entry without the key.
NoKey == "(no key)"

\* updated_entry has the keys of sanitized_data; crop_category is not one.
UpdatedCategoryMissing(inp) == NoKey

\* sanitized_data['date']: the request's date, or the entry's own when the
\* request carries none.
UpdatedDate(old, inp) ==
    IF Get(inp, "date", "") # "" THEN inp.date ELSE old.date

\* new_entry of save_diary_entry: id and timestamp are assigned here, and
\* today's date where entry_data has no date key.
NewEntry(id, t, inp) ==
    [id |-> id, timestamp |-> t, last_modified |-> None,
     crop_type |-> inp.crop_type, observations |-> inp.observations,
     date |-> Get(inp, "date", "today"),
     growth_stage |-> Get(inp, "growth_stage", ""),
     crop_category |-> get_crop_category(inp.crop_type),
     growth_stage_info |->
        get_growth_stage_info(Get(inp, "growth_stage", ""))]

\* updated_entry of update_diary_entry: the id of the request, the old
\* timestamp, last_modified = now, and the request's fields.
UpdatedEntry(old, id, t, inp) ==
    [id |-> id, timestamp |-> old.timestamp, last_modified |-> t,
     crop_type |-> inp.crop_type, observations |-> inp.observations,
     date |-> UpdatedDate(old, inp),
     growth_stage |-> Get(inp, "growth_stage", ""),
     crop_category |-> UpdatedCategoryMissing(inp),
     growth_stage_info |-> NoKey]

\* validate_entry_data: the list of violations, in the order of the checks.
validate_entry_data(entry) ==
    (IF entry.crop_type = "" THEN <<"Crop type is required">> ELSE <<>>)
    \o (IF entry.observations = ""
        THEN <<"Observations are required">> ELSE <<>>)
    \o (IF entry.date = "" THEN <<>>
        ELSE IF ~fromisoformat(entry.date).ok
        THEN <<"Invalid date format">>
        ELSE IF fromisoformat(entry.date).day > 0
        THEN <<"Entry date cannot be in the future">>
        ELSE <<>>)

\* for i, entry in enumerate(entries): if entry.get('id') == entry_id: break
\* The index of the first entry with that id, 0 when there is none.
FindIndex(entries, id) ==
    IF \E i \in 1..Len(entries) : entries[i].id = id
    THEN CHOOSE i \in 1..Len(entries) :
            /\ entries[i].id = id
            /\ \A j \in 1..(i - 1) : entries[j].id # id
    ELSE 0

\* A pop that removes the entry after the one found.
RemoveNext(seq, i) == SubSeq(seq, 1, i) \o SubSeq(seq, i + 2, Len(seq))

RemoveAt(seq, i) == SubSeq(seq, 1, i - 1) \o SubSeq(seq, i + 1, Len(seq))

\* A handler that changes a copy of the loaded document.
InPlaceOnCopy(s, L, doc) == s

\* A handler changes the loaded document in place: when it is the object the
\* cache holds, the cache holds the change too.
InPlace(s, L, doc) ==
    IF L.alias THEN [s EXCEPT !.cache.data = Json(doc)] ELSE s

\* What the handlers return.
Result(op, ok, error, id) ==
    [op |-> op, ok |-> ok, error |-> error, id |-> id, ids |-> <<>>,
     path |-> "none", faults |-> {}]

\* ----------------------------------------------------------------- create
\* The fault scenarios of one save: nothing fails, one copy fails, both
\* copies fail, the write or the replace fails, and the removal after it.
CreateFaults ==
    {{}, {"backup"}, {"tsbackup"}, {"backup", "tsbackup"}, {"tmp"},
     {"replace"}, {"tmp", "remove"}, {"replace", "remove"}}

\* A handler of a failed write that leaves the temporary file behind.
CleanedTmpNever(left, F) == left

\* os.remove(temp_filename) in the handler of a failed write: the
\* temporary file is gone unless the removal fails too (except: pass).
CleanedTmp(left, F) == IF "remove" \in F THEN left ELSE Absent

\* A request that is refused after the loaded document was changed.
EarlyReturnLate(loaded, changed) == changed

\* A request that fails validation, or names no entry, returns before the
\* loaded document is changed: it leaves what its load left.
EarlyReturn(loaded, changed) == loaded

\* metadata.total_entries as save_diary_entry sets it.
CreateTotal(entries) == Len(entries)

\* The cache after a successful save.
CacheAfterSave(c) == EmptyCache

\* save_diary_entry(inp) with the faults F, from the document L its load
\* returned: the possible outcomes [s: the state left, res: the result
\* returned].
save_loaded(L, s0, inp, F) ==
    LET t == s0.now + 1
        entry_id == s0.uuids + 1
        new_entry == NewEntry(entry_id, t, inp)
        errs == validate_entry_data(new_entry)
        appended == Append(L.ret.entries, new_entry)
        doc == [L.ret EXCEPT !.entries = appended,
                             !.total_entries = CreateTotal(appended)]
        \* from here on the entry is in the loaded document
        s1 == [InPlace(L.s, L, doc) EXCEPT !.now = t, !.uuids = entry_id]
    IN  IF L.ret.error # "none"
        THEN {[s |-> L.s,
               res |-> Result("create", FALSE, "Data storage error", None)]}
        ELSE IF errs # <<>>
        THEN {[s |-> EarlyReturn(L.s, [s1 EXCEPT !.now = L.s.now]),
               res |-> Result("create", FALSE, "Validation failed", None)]}
        ELSE IF ~L.ret.has_meta
        THEN {[s |-> [InPlace(L.s, L, [L.ret EXCEPT !.entries = appended])
                        EXCEPT !.now = t, !.uuids = entry_id],
               res |-> Result("create", FALSE, "'metadata'", None)]}
        ELSE {  IF "tmp" \in F
                THEN [s |-> [s3 EXCEPT !.tmp =
                        CleanedTmp(File(Bad("partial"), WriteMTime(t)), F)],
                      res |-> [Result("create", FALSE, "File system error",
                                      None) EXCEPT !.faults = F]]
                ELSE IF "replace" \in F
                THEN [s |-> [s3 EXCEPT !.tmp =
                        CleanedTmp(File(Json(doc), WriteMTime(t)), F)],
                      res |-> [Result("create", FALSE, "File system error",
                                      None) EXCEPT !.faults = F]]
                ELSE [s |-> [s3 EXCEPT
                                !.primary = File(Json(doc), WriteMTime(t)),
                                !.tmp = Absent,
                                !.cache = CacheAfterSave(@)],
                      res |-> [Result("create", TRUE, "none", entry_id)
                                 EXCEPT !.faults = F]]
              : s3 \in create_timestamped_backup(
                            create_backup_file(s1, F), t, F) }

save_diary_entry(s0, inp, F) ==
    save_loaded(load_diary_entries(s0, s0.now), s0, inp, F)

\* --------------------------------------------------------- update, delete
\* open('diary_data.json', 'w') and json.dump: the file is replaced in
\* place.  "open" fails before the file is touched; "write" fails after it
\* was truncated, and leaves a part of the document.
WriteFaults == {{}, {"backup"}, {"open"}, {"write"}, {"backup", "write"}}

\* with open('diary_data.json', 'w') as f: json.dump(diary_data, f)
WriteInPlace(s, doc, t, F) ==
    IF "open" \in F THEN s
    ELSE IF "write" \in F
    THEN [s EXCEPT !.primary = File(Bad("partial"), WriteMTime(t))]
    ELSE [s EXCEPT !.primary = File(Json(doc), WriteMTime(t))]

WriteFails(F) == "open" \in F \/ "write" \in F

\* required_fields = ['crop_type', 'observations'] of update_diary_entry
MissingFields(inp) ==
    (IF inp.crop_type = "" THEN <<"crop_type">> ELSE <<>>)
    \o (IF inp.observations = "" THEN <<"observations">> ELSE <<>>)

\* "last_modified": datetime.now().isoformat()
UpdateStamp(old, t) == t

\* update_diary_entry(entry_id) with the request fields inp and faults F.
update_diary_entry(s0, entry_id, inp, F) ==
    LET L == load_diary_entries(s0, s0.now)
        t == s0.now + 1
        entries == L.ret.entries
        entry_index == FindIndex(entries, entry_id)
        updated_entry ==
            UpdatedEntry(entries[entry_index], entry_id,
                         UpdateStamp(entries[entry_index], t), inp)
        replaced == [entries EXCEPT ![entry_index] = updated_entry]
        doc == [L.ret EXCEPT !.entries = replaced]
        s1 == [InPlace(L.s, L, doc) EXCEPT !.now = t]
        s2 == WriteInPlace(create_backup_file(s1, F), doc, t, F)
    IN  IF entry_index = 0
        THEN [s |-> L.s,
              res |-> Result("update", FALSE, "Entry not found", entry_id)]
        ELSE IF MissingFields(inp) # <<>>
        THEN [s |-> EarlyReturn(L.s, [s1 EXCEPT !.now = L.s.now]),
              res |-> Result("update", FALSE, "Missing required fields",
                             entry_id)]
        ELSE IF Get(inp, "date", "") # "" /\ ~fromisoformat(inp.date).ok
        THEN [s |-> L.s,
              res |-> Result("update", FALSE, "Invalid date format",
                             entry_id)]
        ELSE IF Get(inp, "date", "") # "" /\ fromisoformat(inp.date).day > 0
        THEN [s |-> L.s,
              res |-> Result("update", FALSE,
                             "Entry date cannot be in the future", entry_id)]
        ELSE IF ~L.ret.has_meta
        THEN [s |-> [InPlace(L.s, L, [L.ret EXCEPT !.entries = replaced])
                        EXCEPT !.now = t],
              res |-> Result("update", FALSE, "Failed to update diary entry",
                             entry_id)]
        ELSE IF WriteFails(F)
        THEN [s |-> s2,
              res |-> [Result("update", FALSE, "Failed to update diary entry",
                              entry_id) EXCEPT !.faults = F]]
        ELSE [s |-> s2,
              res |-> [Result("update", TRUE, "none", entry_id)
                         EXCEPT !.faults = F]]

\* A delete that pops the entry and leaves the count as it was.
DeleteTotalStale(entries) == Len(entries) + 1

\* metadata.total_entries as delete_diary_entry sets it.
DeleteTotal(entries) == Len(entries)

\* delete_diary_entry(entry_id) with the faults F.
delete_diary_entry(s0, entry_id, F) ==
    LET L == load_diary_entries(s0, s0.now)
        t == s0.now + 1
        entries == L.ret.entries
        entry_index == FindIndex(entries, entry_id)
        sb == create_backup_file(L.s, F)
        popped == RemoveAt(entries, entry_index)
        doc == [L.ret EXCEPT !.entries = popped,
                             !.total_entries = DeleteTotal(popped)]
        s1 == [InPlace(sb, L, doc) EXCEPT !.now = t]
        s2 == WriteInPlace(s1, doc, t, F)
    IN  IF entry_index = 0
        THEN [s |-> L.s,
              res |-> Result("delete", FALSE, "Entry not found", entry_id)]
        ELSE IF ~L.ret.has_meta
        THEN [s |-> [InPlace(sb, L, [L.ret EXCEPT !.entries = popped])
                        EXCEPT !.now = t],
              res |-> Result("delete", FALSE, "Failed to delete diary entry",
                             entry_id)]
        ELSE IF WriteFails(F)
        THEN [s |-> s2,
              res |-> [Result("delete", FALSE, "Failed to delete diary entry",
                              entry_id) EXCEPT !.faults = F]]
        ELSE [s |-> s2,
              res |-> [Result("delete", TRUE, "none", entry_id)
                         EXCEPT !.faults = F]]

\* ------------------------------------------------------------------- list
Min(a, b) == IF a < b THEN a ELSE b

Max(a, b) == IF a > b THEN a ELSE b

\* list.sort(key=timestamp, reverse=True): stable, so entries with equal
\* timestamps keep the order they had.
InsertDesc(sorted, x) ==
    LET k == Cardinality({i \in 1..Len(sorted) :
                            sorted[i].timestamp >= x.timestamp})
    IN  SubSeq(sorted, 1, k) \o <<x>> \o SubSeq(sorted, k + 1, Len(sorted))

\* A listing that leaves the entries in the order of the file.
SortNone(seq) == seq

RECURSIVE SortDesc(_)
SortDesc(seq) ==
    IF seq = <<>> THEN <<>>
    ELSE InsertDesc(SortDesc(SubSeq(seq, 1, Len(seq) - 1)), seq[Len(seq)])

RECURSIVE Filter(_, _)
Filter(seq, crop_type) ==
    IF seq = <<>> THEN <<>>
    ELSE (IF Lower(seq[1].crop_type) = Lower(crop_type)
          THEN <<seq[1]>> ELSE <<>>)
         \o Filter(Tail(seq), crop_type)

\* A slice that takes the element at end_index too.
SliceInclusive(seq, start, end) ==
    SubSeq(seq, start + 1, Min(end + 1, Len(seq)))

\* filtered_entries[start_index:end_index]
Slice(seq, start, end) == SubSeq(seq, start + 1, Min(end, Len(seq)))

\* A page count that is zero for an empty result.
TotalPagesCeil(total_entries, per_page) ==
    (total_entries + per_page - 1) \div per_page

\* (total_entries + per_page - 1) // per_page if total_entries > 0 else 1
TotalPages(total_entries, per_page) ==
    IF total_entries > 0
    THEN (total_entries + per_page - 1) \div per_page
    ELSE 1

\* The page of get_diary_entries: q.page and q.per_page are the numbers of
\* the query string (0 when the parameter is not given), q.crop_type the
\* filter ("" for none).
Paginate(entries, q) ==
    LET page == Max(1, IF q.page = 0 THEN 1 ELSE q.page)
        per_page == Min(MaxPerPage,
                        Max(1, IF q.per_page = 0 THEN DefaultPerPage
                               ELSE q.per_page))
        filtered == SortDesc(IF q.crop_type # ""
                             THEN Filter(entries, q.crop_type)
                             ELSE entries)
        total_entries == Len(filtered)
        total_pages == TotalPages(total_entries, per_page)
        start_index == (page - 1) * per_page
        paginated == Slice(filtered, start_index, start_index + per_page)
    IN  IF page > total_pages /\ total_entries > 0
        THEN [ok |-> FALSE, entries |-> <<>>, page |-> page,
              per_page |-> per_page, total_entries |-> total_entries,
              total_pages |-> total_pages, returned_entries |-> 0]
        ELSE [ok |-> TRUE, entries |-> paginated, page |-> page,
              per_page |-> per_page, total_entries |-> total_entries,
              total_pages |-> total_pages,
              returned_entries |-> Len(paginated)]

IdsOf(entries) == [i \in 1..Len(entries) |-> entries[i].id]

\* get_diary_entries() with the query q.
get_diary_entries(s0, q) ==
    LET L == load_diary_entries(s0, s0.now)
        p == Paginate(L.ret.entries, q)
    IN  [s |-> L.s,
         res |-> [Result("list", p.ok,
                         IF p.ok THEN "none" ELSE "Page does not exist",
                         None)
                    EXCEPT !.ids = IdsOf(p.entries), !.path = L.path]]

\* ----------------------------------------------------------------- export
\* An export that lists the entries newest first.
ExportNewestFirst(doc) == SortDesc(doc.entries)

\* "entries": diary_data.get("entries", [])
ExportEntries(doc) == doc.entries

\* One row of export_diary_to_csv: the columns the model's entries have.
CsvRow(entry) ==
    <<entry.id, entry.timestamp, entry.date, entry.crop_type,
      entry.growth_stage, entry.observations>>

\* export_diary_data(format_type, include_metadata) from the document L
\* its load returned: the state the load left and the result; data is the
\* export of the native form, rows the rows of the tabular one.
export_loaded(L, format_type, include_metadata) ==
    LET entries == ExportEntries(L.ret)
        export_data ==
            [export_format |-> format_type,
             total_entries |-> Len(entries),
             entries |-> entries,
             metadata_total |->
                IF include_metadata /\ L.ret.has_meta
                THEN L.ret.total_entries ELSE None]
        nothing == [export_data EXCEPT !.entries = <<>>,
                                       !.total_entries = 0,
                                       !.metadata_total = None]
    IN  IF L.ret.error # "none"
        THEN [s |-> L.s, success |-> FALSE,
              error |-> "Cannot export corrupted data",
              data |-> nothing, rows |-> <<>>, path |-> L.path]
        ELSE IF Lower(format_type) = "json"
        THEN [s |-> L.s, success |-> TRUE, error |-> "none",
              data |-> export_data, rows |-> <<>>, path |-> L.path]
        ELSE IF Lower(format_type) = "csv"
        THEN [s |-> L.s, success |-> TRUE, error |-> "none",
              data |-> nothing,
              rows |-> [i \in 1..Len(entries) |-> CsvRow(entries[i])],
              path |-> L.path]
        ELSE [s |-> L.s, success |-> FALSE,
              error |-> "Unsupported export format",
              data |-> nothing, rows |-> <<>>, path |-> L.path]

export_diary_data(s0, format_type, include_metadata) ==
    export_loaded(load_diary_entries(s0, s0.now), format_type,
                  include_metadata)

\* ---------------------------------------------------------------- actions
Ids == 0..MaxTicks

Queries ==
    [page : 0..MaxPage, per_page : {0, 1}, crop_type : {"", "tomato", "KALE"}]

\* The handlers above leave s; the bookkeeping variables follow.
LeaveFiles(s) ==
    /\ now' = s.now
    /\ primary' = s.primary
    /\ backup' = s.backup
    /\ tsbackups' = s.tsbackups
    /\ archives' = s.archives
    /\ tmp' = s.tmp
    /\ cache' = s.cache
    /\ uuids' = s.uuids
    /\ fs_gran' = fs_gran

Leave(s) ==
    /\ LeaveFiles(s)
    /\ pc' = pc
    /\ job' = job

\* The stamping handlers run while the tick budget lasts.
InBudget(s) == (s.now % CacheTicks) <= MaxTicks

\* The load at the head of a handler restores the primary file from backup.
AutoRecovers(s) ==
    /\ ~CacheIsFresh(s, s.now)
    /\ s.primary.exists /\ ~Parses(s.primary)
    /\ recover_from_backup(s, s.now).success

\* Failures that return before the loaded document is changed.
EarlyErrors ==
    {"Data storage error", "Validation failed", "Entry not found",
     "Missing required fields", "Invalid date format",
     "Entry date cannot be in the future"}

Track(s0, res) ==
    /\ deleted' = IF res.op = "delete" /\ res.ok
                  THEN deleted \cup {res.id} ELSE deleted
    /\ restored' = IF AutoRecovers(s0) THEN deleted ELSE restored
    /\ settled' = IF res.op \in {"create", "update", "delete"}
                  THEN res.ok \/ (settled /\ res.error \in EarlyErrors
                                          /\ ~AutoRecovers(s0))
                  ELSE settled /\ ~AutoRecovers(s0)
    /\ last' = res

Load ==
    LET L == load_diary_entries(Cur, now)
    IN  /\ Leave(L.s)
        /\ Track(Cur, [Result("load", L.ret.error = "none", L.ret.error, None)
                          EXCEPT !.ids = IdsOf(L.ret.entries),
                                 !.path = L.path])

\* GET /api/diary/export; last.ids are the ids exported, in order.
Export(format_type, include_metadata) ==
    LET o == export_diary_data(Cur, format_type, include_metadata)
    IN  /\ Leave(o.s)
        /\ Track(Cur, [Result(IF format_type = "json" THEN "export"
                              ELSE "export_" \o format_type,
                              o.success, o.error, None)
                          EXCEPT !.ids = IF format_type = "json"
                                         THEN IdsOf(o.data.entries)
                                         ELSE [i \in 1..Len(o.rows) |->
                                                    o.rows[i][1]],
                                 !.path = o.path])

\* A fault scenario is told from the fault-free one only by a request that
\* gets as far as the copies and the write.
Create(inp, F) ==
    \E o \in save_diary_entry(Cur, inp, F) :
        /\ F = {} \/ o.s.uuids # uuids
        /\ InBudget(o.s)
        /\ Leave(o.s)
        /\ Track(Cur, o.res)

Update(id, inp, F) ==
    LET o == update_diary_entry(Cur, id, inp, F)
    IN  /\ F = {} \/ o.s.now # now
        /\ InBudget(o.s)
        /\ Leave(o.s)
        /\ Track(Cur, o.res)

Delete(id, F) ==
    LET o == delete_diary_entry(Cur, id, F)
    IN  /\ F = {} \/ o.s.now # now
        /\ InBudget(o.s)
        /\ Leave(o.s)
        /\ Track(Cur, o.res)

List(q) ==
    LET o == get_diary_entries(Cur, q)
    IN  /\ Leave(o.s)
        /\ Track(Cur, o.res)

\* recover_diary_data() without a backup_timestamp.
Recover ==
    LET r == recover_from_backup(Cur, now)
    IN  /\ Leave(r.s)
        /\ deleted' = deleted
        /\ restored' = IF r.success THEN deleted ELSE restored
        /\ settled' = FALSE
        /\ last' = Result("recover", r.success, r.error, None)

\* recover_diary_data() with a backup_timestamp, or None for the most
\* recent timestamped backup; last.id names the backup picked.
RecoverTimestamped(backup_timestamp) ==
    \E r \in recover_from_timestamped_backup(Cur, now, backup_timestamp) :
        /\ Leave(r.s)
        /\ deleted' = deleted
        /\ restored' = IF r.success THEN deleted ELSE restored
        /\ settled' = FALSE
        /\ last' = Result("recover_timestamped", r.success, r.error,
                          r.picked)

\* create_diary_backup(): both backups of the primary file as it is.
Backup(F) ==
    \E s \in create_timestamped_backup(create_backup_file(Cur, F), now, F) :
        /\ Leave(s)
        /\ UNCHANGED <<deleted, restored, settled>>
        /\ last' = [Result("backup",
                           primary.exists
                                /\ ~({"backup", "tsbackup"} \subseteq F),
                           "none", None) EXCEPT !.faults = F]

\* The environment damages the primary file: json.load will reject it.
Corrupt ==
    /\ primary.exists
    /\ primary.data # Bad("garbage")
    /\ primary' = File(Bad("garbage"), WriteMTime(now))
    /\ settled' = FALSE
    /\ last' = Result("corrupt", TRUE, "none", None)
    /\ UNCHANGED <<now, fs_gran, backup, tsbackups, archives, tmp, cache,
                   uuids, deleted, restored, pc, job>>

\* A document that parses and breaks the diary structure: an entry whose
\* crop_type is the empty string.
Malformed ==
    Doc(<<NewEntry(0, 0, [crop_type |-> "", observations |-> "wilting"])>>, 1)

Damages == {Bad("garbage"), Json(Malformed)}

\* One backup is damaged at a time.
Undamaged ==
    /\ backup.data \notin Damages
    /\ \A b \in tsbackups : b.data \notin Damages

\* The environment rewrites the fixed-name backup.
DamageBackup(d) ==
    /\ backup.exists
    /\ Undamaged
    /\ backup' = File(d, WriteMTime(now))
    /\ last' = Result("damage", TRUE, "none", None)
    /\ UNCHANGED <<now, fs_gran, primary, tsbackups, archives, tmp, cache,
                   uuids, deleted, restored, settled, pc, job>>

\* The environment rewrites a timestamped backup.
DamageTimestamped(d) ==
    \E b \in tsbackups :
        /\ Undamaged
        /\ tsbackups' = Put(tsbackups, b.name, File(d, WriteMTime(now)))
        /\ last' = Result("damage", TRUE, "none", b.name)
        /\ UNCHANGED <<now, fs_gran, primary, backup, archives, tmp, cache,
                       uuids, deleted, restored, settled, pc, job>>

\* CACHE_DURATION seconds pass without a request.
Elapse ==
    /\ now \div CacheTicks < MaxElapse
    /\ now' = now + CacheTicks
    /\ UNCHANGED <<fs_gran, primary, backup, tsbackups, archives, tmp, cache,
                   uuids, deleted, restored, settled, last, pc, job>>

\* No save is in progress.
NoJob == [doc |-> Doc(<<>>, 0), id |-> None, pre |-> NoData]

\* An entry written by an earlier run of the program.
Entry0 == NewEntry(0, 0, [crop_type |-> "Tomato", observations |-> "wilting"])

\* The program starts with no diary file, or with the one an earlier run
\* left; the cache is empty.
Init ==
    /\ now = 0
    /\ fs_gran \in {1, TicksPerSecond}
    /\ primary \in {Absent, File(Json(Doc(<<Entry0>>, 1)), 0)}
    /\ backup = Absent
    /\ tsbackups = {}
    /\ archives = {}
    /\ tmp = Absent
    /\ cache = EmptyCache
    /\ uuids = 0
    /\ deleted = {}
    /\ restored = {}
    /\ settled = FALSE
    /\ last = Result("init", TRUE, "none", None)
    /\ pc = "idle"
    /\ job = NoJob

\* The requests one after the other, with the faults of the file system.
Next ==
    \/ Load
    \/ \E inp \in Inputs, F \in CreateFaults : Create(inp, F)
    \/ \E id \in Ids, inp \in Inputs, F \in WriteFaults :
            Update(id, inp, F)
    \/ \E id \in Ids, F \in WriteFaults : Delete(id, F)
    \/ \E q \in Queries : List(q)

Spec == Init /\ [][Next]_vars

\* The requests without faults, a primary file damaged from outside, and
\* the recovery from the fixed-name backup.
NextRecovery ==
    \/ Load
    \/ \E inp \in Inputs : Create(inp, {})
    \/ \E id \in Ids, inp \in Inputs : Update(id, inp, {})
    \/ \E id \in Ids : Delete(id, {})
    \/ \E q \in Queries : List(q)
    \/ Recover
    \/ Corrupt

SpecRecovery == Init /\ [][NextRecovery]_vars

\* The cache over time: requests, failed writes, and CACHE_DURATION passing.
NextCache ==
    \/ Load
    \/ \E inp \in Inputs, F \in {{}, {"tmp"}} : Create(inp, F)
    \/ \E id \in Ids, inp \in Inputs, F \in {{}, {"open"}} :
            Update(id, inp, F)
    \/ \E id \in Ids, F \in {{}, {"open"}} : Delete(id, F)
    \/ Elapse

SpecCache == Init /\ [][NextCache]_vars

\* The backup_timestamp of a recovery request: none, or a second.
Stamps == {None} \cup 0..SecondOf(MaxTicks)

\* Restoring from backups that the environment may have damaged.
NextRestore ==
    \/ Load
    \/ Create([crop_type |-> "kale", observations |-> "wilting"], {})
    \/ Recover
    \/ \E ts \in Stamps : RecoverTimestamped(ts)
    \/ \E d \in Damages : DamageBackup(d)
    \/ \E d \in Damages : DamageTimestamped(d)

SpecRestore == Init /\ [][NextRestore]_vars

\* The timestamped backups earlier runs left: n of them, the k-th older
\* than the (k+1)-th, all older than this run.
OldBackup(k) ==
    [name |-> k - MaxOldBackups - 2,
     data |-> Json(Doc(<<>>, 0)),
     mtime |-> k - MaxOldBackups - 2]

InitBackups ==
    /\ now = 0
    /\ fs_gran \in {1, TicksPerSecond}
    /\ primary \in {Absent, File(Json(Doc(<<Entry0>>, 1)), 0)}
    /\ backup = Absent
    /\ tsbackups \in {{OldBackup(k) : k \in 1..n} : n \in 0..MaxOldBackups}
    /\ archives = {}
    /\ tmp = Absent
    /\ cache = EmptyCache
    /\ uuids = 0
    /\ deleted = {}
    /\ restored = {}
    /\ settled = FALSE
    /\ last = Result("init", TRUE, "none", None)
    /\ pc = "idle"
    /\ job = NoJob

\* Snapshots on create and on request, among the backups of earlier runs;
\* a restore from the oldest of them gives the primary file that backup's
\* age.
NextBackups ==
    \/ \E F \in {{}, {"tsbackup"}} :
            Create([crop_type |-> "kale", observations |-> "wilting"], F)
    \/ \E F \in SUBSET {"backup", "tsbackup"} : Backup(F)
    \/ RecoverTimestamped(OldBackup(1).name)

SpecBackups == InitBackups /\ [][NextBackups]_vars

\* ------------------------------------------------ save_diary_entry, by step
\* A save that opens diary_data.json itself for writing.
PrimaryTruncated(s, t) == File(Bad("partial"), WriteMTime(t))

\* The primary file while the temporary file is written: not touched.
PrimaryWhileWriting(s, t) == s.primary

\* Load, build the entry, validate, append, set the metadata.  A request
\* refused here returns at once; otherwise the save goes on to the copies.
SaveBegin(inp) ==
    LET L == load_diary_entries(Cur, now)
        t == now + 1
        entry_id == uuids + 1
        new_entry == NewEntry(entry_id, t, inp)
        appended == Append(L.ret.entries, new_entry)
        doc == [L.ret EXCEPT !.entries = appended,
                             !.total_entries = CreateTotal(appended)]
        s1 == [InPlace(L.s, L, doc) EXCEPT !.now = t, !.uuids = entry_id]
    IN  /\ pc = "idle"
        /\ L.ret.error = "none"
        /\ validate_entry_data(new_entry) = <<>>
        /\ InBudget(s1)
        /\ now' = s1.now
        /\ primary' = s1.primary
        /\ archives' = s1.archives
        /\ cache' = s1.cache
        /\ uuids' = s1.uuids
        /\ pc' = "copy"
        /\ job' = [doc |-> doc, id |-> entry_id, pre |-> s1.primary.data]
        /\ restored' = IF AutoRecovers(Cur) THEN deleted ELSE restored
        /\ settled' = FALSE
        /\ last' = Result("save", TRUE, "none", entry_id)
        /\ UNCHANGED <<fs_gran, backup, tsbackups, tmp, deleted>>

\* create_backup_file and create_timestamped_backup.
SaveCopies ==
    /\ pc = "copy"
    /\ \E s \in create_timestamped_backup(create_backup_file(Cur, {}),
                                           now, {}) :
            /\ backup' = s.backup
            /\ tsbackups' = s.tsbackups
    /\ pc' = "open"
    /\ UNCHANGED <<now, fs_gran, primary, archives, tmp, cache, uuids,
                   deleted, restored, settled, last, job>>

\* open(temp_filename, 'w'), and json.dump under way.
SaveOpenTmp ==
    /\ pc = "open"
    /\ tmp' = File(Bad("partial"), WriteMTime(now))
    /\ primary' = PrimaryWhileWriting(Cur, now)
    /\ pc' = "dump"
    /\ UNCHANGED <<now, fs_gran, backup, tsbackups, archives, cache, uuids,
                   deleted, restored, settled, last, job>>

\* json.dump done, the temporary file closed.
SaveDumpTmp ==
    /\ pc = "dump"
    /\ tmp' = File(Json(job.doc), WriteMTime(now))
    /\ pc' = "replace"
    /\ UNCHANGED <<now, fs_gran, primary, backup, tsbackups, archives, cache,
                   uuids, deleted, restored, settled, last, job>>

\* os.replace(temp_filename, 'diary_data.json')
SaveReplace ==
    /\ pc = "replace"
    /\ primary' = tmp
    /\ tmp' = Absent
    /\ pc' = "invalidate"
    /\ UNCHANGED <<now, fs_gran, backup, tsbackups, archives, cache, uuids,
                   deleted, restored, settled, last, job>>

\* invalidate_diary_cache(), and the return.
SaveInvalidate ==
    /\ pc = "invalidate"
    /\ cache' = CacheAfterSave(cache)
    /\ pc' = "idle"
    /\ job' = NoJob
    /\ settled' = TRUE
    /\ last' = Result("create", TRUE, "none", job.id)
    /\ UNCHANGED <<now, fs_gran, primary, backup, tsbackups, archives, tmp,
                   uuids, deleted, restored>>

\* One save step by step; the loads of other threads come in between, the
\* cache may expire meanwhile, and between two saves entries are deleted.
NextSteps ==
    \/ \E inp \in Inputs : SaveBegin(inp)
    \/ SaveCopies
    \/ SaveOpenTmp
    \/ SaveDumpTmp
    \/ SaveReplace
    \/ SaveInvalidate
    \/ Load
    \/ \E id \in Ids : pc = "idle" /\ Delete(id, {})
    \/ Elapse

SpecSteps == Init /\ [][NextSteps]_vars

\* A diary of n entries left by earlier runs, oldest first; their ids and
\* stamps lie before those of this run.
OldEntry(k) ==
    NewEntry(k - MaxOld - 2, k - MaxOld - 2,
             [crop_type |-> "kale", observations |-> "wilting"])

OldEntries(n) == [k \in 1..n |-> OldEntry(k)]

InitPaging ==
    /\ now = 0
    /\ fs_gran \in {1, TicksPerSecond}
    /\ primary \in {File(Json(Doc(OldEntries(n), n)), 0) : n \in 0..MaxOld}
    /\ backup = Absent
    /\ tsbackups = {}
    /\ archives = {}
    /\ tmp = Absent
    /\ cache = EmptyCache
    /\ uuids = 0
    /\ deleted = {}
    /\ restored = {}
    /\ settled = FALSE
    /\ last = Result("init", TRUE, "none", None)
    /\ pc = "idle"
    /\ job = NoJob

\* Listing a diary longer than a page.
NextPaging ==
    \/ Load
    \/ \E inp \in Inputs : Create(inp, {})
    \/ \E q \in Queries : List(q)

SpecPaging == InitPaging /\ [][NextPaging]_vars

\* ------------------------------------------- two creates at the same time
\* Two request threads run save_diary_entry with no lock.  pc[c] is where
\* caller c stands; job holds the documents json.load built (heap, one per
\* caller that read the file), which of them _diary_cache['data'] is
\* (cached, 0 for none), the document each caller works on (obj), the
\* file_modified each took before reading (fm), the ids and the results.
Callers == {1, 2}

NoThreads ==
    [heap |-> [o \in Callers |-> Doc(<<>>, 0)],
     cached |-> 0,
     obj |-> [c \in Callers |-> 0],
     fm |-> [c \in Callers |-> None],
     id |-> [c \in Callers |-> None],
     out |-> [c \in Callers |-> "none"]]

InitConcurrent ==
    /\ now = 0
    /\ fs_gran \in {1, TicksPerSecond}
    /\ primary \in {Absent, File(Json(Doc(<<Entry0>>, 1)), 0)}
    /\ backup = Absent
    /\ tsbackups = {}
    /\ archives = {}
    /\ tmp = Absent
    /\ cache = EmptyCache
    /\ uuids = 0
    /\ deleted = {}
    /\ restored = {}
    /\ settled = FALSE
    /\ last = Result("init", TRUE, "none", None)
    /\ pc = [c \in Callers |-> "check"]
    /\ job = NoThreads

\* A replace that adds the entries of the source to those of the target.
ReplaceMerging(target, source) ==
    IF Parses(target) /\ Parses(source)
    THEN [source EXCEPT !.data.doc.entries =
            target.data.doc.entries
            \o SelectSeq(source.data.doc.entries,
                         LAMBDA e : \A i \in 1..Len(target.data.doc.entries) :
                                        target.data.doc.entries[i].id # e.id)]
    ELSE source

\* os.replace(temp_filename, 'diary_data.json'): the primary file becomes
\* the temporary one.
ReplaceTarget(target, source) == source

\* load_diary_entries: file_modified is taken and the cache is tested; a
\* fresh cache gives the caller the cached document itself.
CheckCache(c) ==
    /\ pc[c] = "check"
    /\ IF CacheIsFresh(Cur, now)
       THEN /\ job' = [job EXCEPT !.obj[c] = job.cached]
            /\ pc' = [pc EXCEPT ![c] = "build"]
       ELSE /\ job' = [job EXCEPT !.fm[c] = get_file_modified_time(primary)]
            /\ pc' = [pc EXCEPT ![c] = "read"]
    /\ UNCHANGED <<now, fs_gran, primary, backup, tsbackups, archives, tmp,
                   cache, uuids, deleted, restored, settled, last>>

\* load_diary_entries: json.load builds a new document and the cache takes
\* it; with no file, the initial document is written and returned, and the
\* cache is left alone.
ReadFile(c) ==
    /\ pc[c] = "read"
    /\ ~primary.exists \/ Parses(primary)
    /\ IF primary.exists
       THEN /\ job' = [job EXCEPT !.heap[c] = primary.data.doc,
                                  !.obj[c] = c,
                                  !.cached = c]
            /\ cache' = [data |-> primary.data,
                         last_modified |-> job.fm[c],
                         cache_time |-> now]
            /\ primary' = primary
       ELSE /\ job' = [job EXCEPT !.heap[c] = Doc(<<>>, 0), !.obj[c] = c]
            /\ cache' = cache
            /\ primary' = File(Json(Doc(<<>>, 0)), WriteMTime(now))
    /\ pc' = [pc EXCEPT ![c] = "build"]
    /\ UNCHANGED <<now, fs_gran, backup, tsbackups, archives, tmp, uuids,
                   deleted, restored, settled, last>>

\* The id, the entry, the append and the metadata, on the caller's
\* document; the cache holds the change when that document is the cached
\* one.
BuildEntry(c) ==
    LET t == now + 1
        entry_id == uuids + 1
        o == job.obj[c]
        appended ==
            Append(job.heap[o].entries,
                   NewEntry(entry_id, t,
                            [crop_type |-> "kale", observations |-> "wilting"]))
        doc == [job.heap[o] EXCEPT !.entries = appended,
                                   !.total_entries = CreateTotal(appended)]
    IN  /\ pc[c] = "build"
        /\ now' = t
        /\ uuids' = entry_id
        /\ job' = [job EXCEPT !.heap[o] = doc, !.id[c] = entry_id]
        /\ cache' = IF job.cached = o
                    THEN [cache EXCEPT !.data = Json(doc)] ELSE cache
        /\ pc' = [pc EXCEPT ![c] = "copy"]
        /\ UNCHANGED <<fs_gran, primary, backup, tsbackups, archives, tmp,
                       deleted, restored, settled, last>>

\* create_backup_file and create_timestamped_backup.
CopyBackups(c) ==
    /\ pc[c] = "copy"
    /\ \E s \in create_timestamped_backup(create_backup_file(Cur, {}),
                                           now, {}) :
            /\ backup' = s.backup
            /\ tsbackups' = s.tsbackups
    /\ pc' = [pc EXCEPT ![c] = "dump"]
    /\ UNCHANGED <<now, fs_gran, primary, archives, tmp, cache, uuids,
                   deleted, restored, settled, last, job>>

\* open(temp_filename, 'w') and json.dump(diary_data), taken as one step:
\* the temporary file holds the caller's document as it is now.
DumpTmp(c) ==
    /\ pc[c] = "dump"
    /\ tmp' = File(Json(job.heap[job.obj[c]]), WriteMTime(now))
    /\ pc' = [pc EXCEPT ![c] = "replace"]
    /\ UNCHANGED <<now, fs_gran, primary, backup, tsbackups, archives, cache,
                   uuids, deleted, restored, settled, last, job>>

\* os.replace; with the temporary file gone (the other caller has moved
\* it) it raises, and the caller returns the failure.
ReplaceFile(c) ==
    /\ pc[c] = "replace"
    /\ IF tmp.exists
       THEN /\ primary' = ReplaceTarget(primary, tmp)
            /\ tmp' = Absent
            /\ pc' = [pc EXCEPT ![c] = "invalidate"]
            /\ UNCHANGED <<job, last>>
       ELSE /\ job' = [job EXCEPT !.out[c] = "File system error"]
            /\ pc' = [pc EXCEPT ![c] = "done"]
            /\ last' = Result("create", FALSE, "File system error", None)
            /\ UNCHANGED <<primary, tmp>>
    /\ UNCHANGED <<now, fs_gran, backup, tsbackups, archives, cache, uuids,
                   deleted, restored, settled>>

\* invalidate_diary_cache(), and the success is returned.
InvalidateCache(c) ==
    /\ pc[c] = "invalidate"
    /\ cache' = CacheAfterSave(cache)
    /\ job' = [job EXCEPT !.cached = 0, !.out[c] = "ok"]
    /\ pc' = [pc EXCEPT ![c] = "done"]
    /\ last' = Result("create", TRUE, "none", job.id[c])
    /\ UNCHANGED <<now, fs_gran, primary, backup, tsbackups, archives, tmp,
                   uuids, deleted, restored, settled>>

NextConcurrent ==
    \E c \in Callers :
        \/ CheckCache(c)
        \/ ReadFile(c)
        \/ BuildEntry(c)
        \/ CopyBackups(c)
        \/ DumpTmp(c)
        \/ ReplaceFile(c)
        \/ InvalidateCache(c)

SpecConcurrent == InitConcurrent /\ [][NextConcurrent]_vars

\* ------------------------------------------------- faults and exceptions
\* The faults of the environment: "read" (open of the primary file for
\* reading raises), "create" (the initial file cannot be written),
\* "archive" and "restore" (the two copies of a recovery raise), and the
\* faults of a save.  An outcome tells whether the call raised, and which
\* faults struck it.

\* A handler that lets the exception go on to the caller.
ExceptNothing(s, e, struck) ==
    [s |-> s, raised |-> TRUE, success |-> FALSE, error |-> e,
     struck |-> struck]

\* except Exception as e: return {"success": False, "error": ...}
ExceptException(s, e, struck) ==
    [s |-> s, raised |-> FALSE, success |-> FALSE, error |-> e,
     struck |-> struck]

Return(s, success, e, struck) ==
    [s |-> s, raised |-> FALSE, success |-> success, error |-> e,
     struck |-> struck]

\* recover_from_backup with the faults F: the archive copy raises before
\* anything is written; the restore copy raises with the archive made, and
\* leaves the primary file as it was or cut short.
recover_guarded(s, t, F) ==
    LET r == recover_from_backup(s, t)
        archived == [s EXCEPT !.archives =
                        IF s.primary.exists
                        THEN Put(@, SecondOf(t), ArchiveSource(s)) ELSE @]
    IN  IF ~r.success
        THEN {Return(r.s, FALSE, r.error, {})}
        ELSE IF s.primary.exists /\ "archive" \in F
        THEN {ExceptException(s, "Recovery failed", {"archive"})}
        ELSE IF "restore" \in F
        THEN {ExceptException(archived, "Recovery failed", {"restore"}),
              ExceptException(
                [archived EXCEPT !.primary =
                    File(Bad("partial"), WriteMTime(t))],
                "Recovery failed", {"restore"})}
        ELSE {Return(r.s, TRUE, "none", {})}

\* load_diary_entries with the faults F: the outcomes, each with the
\* document returned.
load_guarded(s, t, F) ==
    LET L == load_diary_entries(s, t)
        plain == [s |-> L.s, ret |-> L.ret, alias |-> L.alias,
                  path |-> L.path, raised |-> FALSE, struck |-> {}]
    IN  IF CacheIsFresh(s, t)
        THEN {plain}
        ELSE IF ~s.primary.exists
        THEN IF "create" \in F
             THEN {[plain EXCEPT !.s = s, !.struck = {"create"}]}
             ELSE {plain}
        ELSE IF "read" \in F
        THEN {[s |-> o.s, ret |-> ErrorDoc("Permission denied"),
               alias |-> FALSE, path |-> "error", raised |-> o.raised,
               struck |-> {"read"}]
              : o \in {ExceptException(s, "Permission denied", {"read"})}}
        ELSE IF ~Parses(s.primary)
        THEN {[s |-> r.s,
               ret |-> IF r.success /\ Parses(r.s.primary)
                       THEN r.s.primary.data.doc
                       ELSE ErrorDoc("JSON decode error"),
               alias |-> FALSE,
               path |-> IF r.success THEN "recovered" ELSE "error",
               raised |-> r.raised, struck |-> r.struck]
              : r \in recover_guarded(s, t, F)}
        ELSE {plain}

\* The faults of F that strike a save that has got as far as the copies.
StruckSaving(s, F) ==
    {f \in F \cap UNION CreateFaults :
        f \in {"backup", "tsbackup"} => s.primary.exists}

\* What is handed to save_diary_entry: a dictionary of strings, something
\* that is no dictionary, a dictionary whose crop_type is a number.
EntryKinds == {"dict", "list", "number"}

\* save_diary_entry(entry_data) with the faults F.
create_guarded(s0, kind, inp, F) ==
    IF kind = "list"
    THEN {Return(s0, FALSE, "Invalid entry data format", {})}
    ELSE UNION {
            IF L.raised
            THEN {ExceptException(L.s, "load", L.struck)}
            ELSE IF L.ret.error # "none"
            THEN {Return(L.s, FALSE, "Data storage error", L.struck)}
            ELSE IF kind = "number"
            THEN {ExceptException(L.s,
                    "'int' object has no attribute 'lower'", L.struck)}
            ELSE {Return(o.s, o.res.ok, o.res.error,
                           L.struck \cup
                           (IF o.res.faults = {} THEN {}
                            ELSE StruckSaving(L.s, F)))
                  : o \in save_loaded(L, s0, inp, F \cap UNION CreateFaults)}
            : L \in load_guarded(s0, s0.now, F)}

\* export_diary_data('json') with the faults F.
export_guarded(s0, F) ==
    {IF L.raised
     THEN ExceptException(L.s, "Export failed", L.struck)
     ELSE LET o == export_loaded(L, "json", TRUE)
          IN  Return(o.s, o.success, o.error, L.struck)
     : L \in load_guarded(s0, s0.now, F)}

\* What the last call did: whether it raised, and the faults that struck.
Outcome(op, o) == [op |-> op, raised |-> o.raised, struck |-> o.struck]

LoadFaults == {{}, {"read"}, {"create"}}

RecoverFaults == {{}, {"archive"}, {"restore"}}

SaveFaults == {{"backup"}, {"tmp"}, {"replace"}}

CreateGuarded(kind, F) ==
    \E o \in create_guarded(Cur, kind,
                            [crop_type |-> "kale", observations |-> "wilting"],
                            F) :
        /\ InBudget(o.s)
        /\ LeaveFiles(o.s)
        /\ pc' = pc
        /\ job' = Outcome("create", o)
        /\ Track(Cur, Result("create", o.success, o.error, None))

LoadGuarded(F) ==
    \E L \in load_guarded(Cur, now, F) :
        /\ LeaveFiles(L.s)
        /\ pc' = pc
        /\ job' = Outcome("load", L)
        /\ Track(Cur, [Result("load", L.ret.error = "none", L.ret.error,
                              None) EXCEPT !.path = L.path])

RecoverGuarded(F) ==
    \E o \in recover_guarded(Cur, now, F) :
        /\ LeaveFiles(o.s)
        /\ pc' = pc
        /\ job' = Outcome("recover", o)
        /\ Track(Cur, Result("recover", o.success, o.error, None))

ExportGuarded(F) ==
    \E o \in export_guarded(Cur, F) :
        /\ LeaveFiles(o.s)
        /\ pc' = pc
        /\ job' = Outcome("export", o)
        /\ Track(Cur, Result("export", o.success, o.error, None))

\* The four operations on every file state, with and without faults.
NextFaults ==
    \/ \E k \in EntryKinds : CreateGuarded(k, {})
    \/ \E F \in {{"read"}} \cup SaveFaults : CreateGuarded("dict", F)
    \/ \E F \in LoadFaults \cup RecoverFaults : LoadGuarded(F)
    \/ \E F \in RecoverFaults : RecoverGuarded(F)
    \/ \E F \in LoadFaults : ExportGuarded(F)
    \/ Corrupt

SpecFaults == Init /\ [][NextFaults]_vars

\* ------------------------------------------ creates and deletes in sequence
\* job.created: the ids created so far, in the order of their creation; the
\* entries an earlier run left count as created first.
InitSerial ==
    /\ now = 0
    /\ fs_gran \in {1, TicksPerSecond}
    /\ primary \in {Absent, File(Json(Doc(<<Entry0>>, 1)), 0)}
    /\ backup = Absent
    /\ tsbackups = {}
    /\ archives = {}
    /\ tmp = Absent
    /\ cache = EmptyCache
    /\ uuids = 0
    /\ deleted = {}
    /\ restored = {}
    /\ settled = FALSE
    /\ last = Result("init", TRUE, "none", None)
    /\ pc = "idle"
    /\ job = [created |-> IF primary.exists
                          THEN IdsOf(primary.data.doc.entries) ELSE <<>>]

\* POST /api/diary/entries without faults; a success adds its id to the ids
\* created.
CreateSerial(inp) ==
    \E o \in save_diary_entry(Cur, inp, {}) :
        /\ InBudget(o.s)
        /\ LeaveFiles(o.s)
        /\ pc' = pc
        /\ job' = IF o.res.ok
                  THEN [created |-> Append(job.created, o.res.id)]
                  ELSE job
        /\ Track(Cur, o.res)

\* DELETE /api/diary/entries/<id> without faults; there is an entry to delete
\* only as often as one was created.
DeleteSerial(id) ==
    LET o == delete_diary_entry(Cur, id, {})
    IN  /\ Leave(o.s)
        /\ Track(Cur, o.res)

\* One request after the other, no faults.
NextSerial ==
    \/ Load
    \/ \E inp \in Inputs : CreateSerial(inp)
    \/ \E id \in Ids : DeleteSerial(id)
    \/ Elapse

SpecSerial == InitSerial /\ [][NextSerial]_vars

\* ------------------------------------------------- limit and offset queries
\* The limit and offset parameters a request carries; offset defaults to 0.
Limits == {0, 1, 3, MaxPerPage + 1}

Offsets == 0..(2 * MaxPage)

\* Python's int(offset) // per_page, for the offsets of the requests.
FloorDiv(a, b) == a \div b

\* per_page = min(100, max(1, int(limit)))
\* page = max(1, int(offset) // per_page + 1)
LegacyPage(limit, offset, crop_type) ==
    LET per_page == Min(MaxPerPage, Max(1, limit))
    IN  [page |-> Max(1, FloorDiv(offset, per_page) + 1),
         per_page |-> per_page, crop_type |-> crop_type]

\* GET /api/diary/entries?limit=..&offset=..; job is the request made.
ListLegacy(limit, offset, crop_type) ==
    LET o == get_diary_entries(Cur, LegacyPage(limit, offset, crop_type))
    IN  /\ LeaveFiles(o.s)
        /\ pc' = pc
        /\ job' = [limit |-> limit, offset |-> offset,
                   crop_type |-> crop_type]
        /\ Track(Cur, [o.res EXCEPT !.op = "list_legacy"])

\* Listing a diary by limit and offset.
NextLegacy ==
    \/ Create([crop_type |-> "Tomato", observations |-> "wilting"], {})
    \/ \E limit \in Limits, offset \in Offsets, c \in {"", "KALE"} :
            ListLegacy(limit, offset, c)

SpecLegacy == InitPaging /\ [][NextLegacy]_vars

\* ------------------------------------------------------ the dates of entries
\* Entries with no date key, with a date, with an empty date, with a date
\* and a time of day, and with a date that is none.
DateForms ==
    {[crop_type |-> "kale", observations |-> "wilting"],
     [crop_type |-> "kale", observations |-> "wilting", date |-> "today-1"],
     [crop_type |-> "kale", observations |-> "wilting", date |-> ""],
     [crop_type |-> "kale", observations |-> "wilting",
      date |-> "todayT10:00"],
     [crop_type |-> "kale", observations |-> "wilting", date |-> "garbage"]}

NextDates ==
    \/ \E inp \in DateForms : Create(inp, {})
    \/ \E id \in Ids, inp \in DateForms : Update(id, inp, {})
    \/ \E id \in Ids : Delete(id, {})
    \/ Load

SpecDates == Init /\ [][NextDates]_vars

\* --------------------------------------------- a file damaged after a create
\* The environment damages the primary file right after a create that
\* succeeded; last keeps the id created.
CorruptAfterCreate ==
    /\ last.op = "create" /\ last.ok
    /\ primary.exists
    /\ primary' = File(Bad("garbage"), WriteMTime(now))
    /\ settled' = FALSE
    /\ last' = [last EXCEPT !.op = "corrupt_after_create"]
    /\ UNCHANGED <<now, fs_gran, backup, tsbackups, archives, tmp, cache,
                   uuids, deleted, restored, pc, job>>

NextDurable ==
    \/ Load
    \/ \E inp \in Inputs : Create(inp, {})
    \/ \E id \in Ids : Delete(id, {})
    \/ CorruptAfterCreate
    \/ Elapse

SpecDurable == Init /\ [][NextDurable]_vars

\* ------------------------------------------------- the fields of a request
\* Requests that carry a date or a growth stage, and ones that do not.
Dated ==
    {[crop_type |-> "kale", observations |-> "wilting", date |-> "today-1"],
     [crop_type |-> "Tomato", observations |-> "wilting"],
     [crop_type |-> "kale", observations |-> "dry", growth_stage |-> "seed"]}

\* Dates the routes refuse.
Misdated ==
    {[crop_type |-> "kale", observations |-> "wilting", date |-> "today+1"],
     [crop_type |-> "kale", observations |-> "wilting", date |-> "garbage"]}

NextFields ==
    \/ \E inp \in Dated : Create(inp, {})
    \/ \E id \in Ids, inp \in Dated \cup Misdated : Update(id, inp, {})
    \/ Load

SpecFields == Init /\ [][NextFields]_vars

\* ------------------------------------------------------ the export route
Formats == {"json", "csv", "xml"}

\* Exports of a diary that is written, updated and corrupted.
NextExport ==
    \/ Load
    \/ \E inp \in Dated : Create(inp, {})
    \/ \E id \in Ids, F \in {{}, {"open"}} :
            Update(id, [crop_type |-> "kale", observations |-> "dry"], F)
    \/ Corrupt
    \/ \E f \in Formats, m \in BOOLEAN : Export(f, m)

SpecExport == Init /\ [][NextExport]_vars

\* ------------------------------------------ validate_entry_data, every rule
\* A string as the validator sees it: its length, and whether strip()
\* leaves nothing of it.
Text(len, blank) == [len |-> len, blank |-> blank]

Word(len) == Text(len, len = 0)

\* A value given for actions_taken or photos: whether it is a list, how
\* many elements it has, whether they are all strings, and the length of
\* the longest one.
Items(count, longest) ==
    [is_list |-> TRUE, count |-> count, all_str |-> TRUE,
     longest |-> longest]

NotAList == [is_list |-> FALSE, count |-> 0, all_str |-> TRUE, longest |-> 0]

NotStrings(count) ==
    [is_list |-> TRUE, count |-> count, all_str |-> FALSE, longest |-> 0]

\* elif len(actions) > 20: ... else: for action in actions: the elements
\* are looked at only when the list is within its limit.
ItemsChecked(l, max_count) == l.count <= max_count

\* The violations of one list field.
ListErrors(l, max_count, max_len, not_list, too_many, bad_item) ==
    IF ~l.is_list THEN <<not_list>>
    ELSE (IF l.count > max_count THEN <<too_many>> ELSE <<>>)
         \o (IF /\ ItemsChecked(l, max_count)
                /\ l.count > 0
                /\ (~l.all_str \/ l.longest > max_len)
             THEN <<bad_item>> ELSE <<>>)

\* validate_entry_data on an entry with all its fields; one message for
\* each kind of violation.
validate_entry_rules(e) ==
    (IF e.crop_type.blank THEN <<"Crop type is required">> ELSE <<>>)
    \o (IF e.observations.blank
        THEN <<"Observations are required">> ELSE <<>>)
    \o (IF e.date = "" THEN <<>>
        ELSE IF ~fromisoformat(e.date).ok THEN <<"Invalid date format">>
        ELSE IF fromisoformat(e.date).day > 0
             THEN <<"Entry date cannot be in the future">>
        ELSE <<>>)
    \o (IF e.crop_type.len > MaxCropType
        THEN <<"Crop type must be 100 characters or less">> ELSE <<>>)
    \o (IF e.growth_stage.len > MaxGrowthStage
        THEN <<"Growth stage must be 50 characters or less">> ELSE <<>>)
    \o (IF e.observations.len > MaxObservations
        THEN <<"Observations must be 2000 characters or less">> ELSE <<>>)
    \o (IF e.weather.len > MaxWeather
        THEN <<"Weather description must be 200 characters or less">>
        ELSE <<>>)
    \o (IF e.location.len > MaxLocation
        THEN <<"Location must be 200 characters or less">> ELSE <<>>)
    \o (IF e.user_notes.len > MaxUserNotes
        THEN <<"User notes must be 1000 characters or less">> ELSE <<>>)
    \o ListErrors(e.actions_taken, MaxActions, MaxActionLen,
                  "Actions taken must be a list",
                  "Maximum 20 actions allowed per entry",
                  "Each action must be a string of 100 characters or less")
    \o ListErrors(e.photos, MaxPhotos, MaxPhotoLen,
                  "Photos must be a list",
                  "Maximum 10 photos allowed per entry",
                  "Each photo path must be a string of 500 characters or less")

\* The entries handed to the validator: each field at, within and beyond
\* its limit.
Forms ==
    [crop_type : {Word(0), Text(3, TRUE), Word(4), Word(MaxCropType),
                  Word(MaxCropType + 1)},
     observations : {Word(0), Word(7), Word(MaxObservations),
                     Word(MaxObservations + 1)},
     date : {"", "garbage", "today-1", "today", "today+1"},
     growth_stage : {Word(MaxGrowthStage), Word(MaxGrowthStage + 1)},
     weather : {Word(MaxWeather), Word(MaxWeather + 1)},
     location : {Word(0), Word(MaxLocation + 1)},
     user_notes : {Word(MaxUserNotes), Word(MaxUserNotes + 1)},
     actions_taken : {NotAList, Items(0, 0), NotStrings(1),
                      Items(MaxActions, MaxActionLen),
                      Items(1, MaxActionLen + 1),
                      Items(MaxActions + 1, MaxActionLen + 1)},
     photos : {Items(0, 0), Items(MaxPhotos, MaxPhotoLen),
               Items(1, MaxPhotoLen + 1),
               Items(MaxPhotos + 1, MaxPhotoLen + 1)}]

\* validate_entry_data(entry) is called and returns its list.
Validate(e) ==
    /\ pc = "idle"
    /\ pc' = "validated"
    /\ job' = [entry |-> e, errors |-> validate_entry_rules(e)]
    /\ UNCHANGED <<now, fs_gran, primary, backup, tsbackups, archives, tmp,
                   cache, uuids, deleted, restored, settled, last>>

\* The caller takes the list and is ready for the next entry.
Validated ==
    /\ pc = "validated"
    /\ pc' = "idle"
    /\ job' = NoJob
    /\ UNCHANGED <<now, fs_gran, primary, backup, tsbackups, archives, tmp,
                   cache, uuids, deleted, restored, settled, last>>

NextValidate ==
    \/ pc = "idle" /\ \E e \in Forms : Validate(e)
    \/ Validated

SpecValidate == Init /\ [][NextValidate]_vars

\* ------------------------------------------------------------- properties
Mutations == {"create", "update", "delete"}

Succeeded(op) == last.op = op /\ last.ok

\* The document the primary file holds.
Persisted == primary.data.doc

\* C1: after every successful create, update or delete, the persisted
\* document's metadata.total_entries equals the number of its entries.
TotalEntriesMatches ==
    (last.op \in Mutations /\ last.ok) =>
        /\ Parses(primary)
        /\ Persisted.total_entries = Len(Persisted.entries)

\* A delete has succeeded on a document of two entries.
TotalEntriesMatchesWitness ==
    /\ Succeeded("delete")
    /\ Parses(primary)
    /\ Len(Persisted.entries) = 1
    /\ Persisted.total_entries = 1

\* The first page of the unfiltered listing, default page size.
FirstPage == [page |-> 0, per_page |-> 0, crop_type |-> ""]

\* C2: after a successful create, the unfiltered first page of the default
\* size contains the id create returned, and no other entry of the document
\* has that id.
CreatedIsListed ==
    Succeeded("create") =>
        LET listed == get_diary_entries(Cur, FirstPage).res
            entries == load_diary_entries(Cur, now).ret.entries
        IN  /\ listed.ok
            /\ \E i \in 1..Len(listed.ids) : listed.ids[i] = last.id
            /\ Cardinality({i \in 1..Len(entries) :
                                entries[i].id = last.id}) = 1

\* A create has succeeded on a diary that no longer fits the first page.
CreatedIsListedWitness ==
    /\ Succeeded("create")
    /\ Len(Persisted.entries) > DefaultPerPage
    /\ Len(get_diary_entries(Cur, FirstPage).res.ids) = DefaultPerPage

\* C3: a successful update of an existing entry keeps that entry's id and
\* timestamp, sets its last_modified to a time at or after the timestamp,
\* and leaves every other entry of the document as it was.
UpdatePreservesOthers ==
    [][(last'.op = "update" /\ last'.ok /\ Parses(primary)) =>
        LET before == primary.data.doc.entries
            after == primary'.data.doc.entries
        IN  /\ Parses(primary')
            /\ Len(after) = Len(before)
            /\ \A i \in 1..Len(before) :
                IF before[i].id = last'.id
                THEN /\ after[i].id = before[i].id
                     /\ after[i].timestamp = before[i].timestamp
                     /\ after[i].last_modified >= after[i].timestamp
                ELSE after[i] = before[i]]_vars

\* The ids a listing or a load has just returned.
Returned == {last.ids[i] : i \in 1..Len(last.ids)}

\* C4 as stated: once an entry is deleted, no later listing returns its id,
\* and the delete leaves metadata.total_entries at the number of entries
\* that remain.
DeletedStaysGone ==
    /\ last.op = "list" => Returned \cap deleted = {}
    /\ Succeeded("delete") =>
        /\ Parses(primary)
        /\ Persisted.total_entries = Len(Persisted.entries)
        /\ \A i \in 1..Len(Persisted.entries) :
                Persisted.entries[i].id # last.id

\* C4: once an entry is deleted, no later listing returns its id unless the
\* primary file has since been restored from a backup taken before the
\* delete; the delete leaves metadata.total_entries at the number of entries
\* that remain.
DeletedStaysGoneUntilRestore ==
    /\ last.op = "list" => Returned \cap (deleted \ restored) = {}
    /\ Succeeded("delete") =>
        /\ Parses(primary)
        /\ Persisted.total_entries = Len(Persisted.entries)
        /\ \A i \in 1..Len(Persisted.entries) :
                Persisted.entries[i].id # last.id

\* A listing of a diary that still has an entry, after another was deleted.
DeletedStaysGoneWitness ==
    /\ last.op = "list"
    /\ last.ok
    /\ Returned # {}
    /\ deleted \ restored # {}

CacheInvalidatedAfterMutation ==
    (last.op \in Mutations /\ last.ok) => cache = EmptyCache

\* The content of a file, its modification time aside.
Content(f) == [exists |-> f.exists, data |-> f.data]

\* C8 as stated: when the write of the temporary file or the replace fails,
\* create reports failure, the temporary file is gone, and the primary file
\* holds what it held before the create began.
FailedWriteLeavesPrimary ==
    [][(last'.op = "create" /\ last'.error = "File system error") =>
        /\ ~last'.ok
        /\ tmp' = Absent
        /\ Content(primary') = Content(primary)]_vars

\* C8: when the write of the temporary file or the replace fails, create
\* reports failure, the temporary file is gone unless its removal failed as
\* well, and the primary file holds what the create's load left: what it
\* held before, but for an absent file initialised to the empty document
\* and an unparseable one restored from the fixed-name backup.
FailedWriteLeavesLoaded ==
    [][(last'.op = "create" /\ last'.error = "File system error") =>
        /\ ~last'.ok
        /\ tmp' = Absent \/ "remove" \in last'.faults
        /\ Content(primary') =
                Content(load_diary_entries(Cur, now).s.primary)
        /\ Parses(primary) => Content(primary') = Content(primary)]_vars

\* A create whose replace failed has returned: no temporary file, and the
\* primary file still holds a diary with an entry.
FailedWriteLeavesLoadedWitness ==
    /\ last.op = "create"
    /\ last.error = "File system error"
    /\ last.faults = {"replace"}
    /\ tmp = Absent
    /\ Parses(primary)
    /\ Persisted.entries # <<>>

\* A create refused by validate_entry_data, or an update or delete of an id
\* no entry has.
Refused(res) ==
    \/ res.op = "create" /\ res.error = "Validation failed"
    \/ res.op \in {"update", "delete"} /\ res.error = "Entry not found"

\* C9 as stated: a refused request leaves the primary file, the fixed-name
\* backup, the timestamped backups and the entries load returns as they
\* were.
RefusedChangesNothing ==
    [][Refused(last') =>
        /\ Content(primary') = Content(primary)
        /\ backup' = backup
        /\ tsbackups' = tsbackups
        /\ load_diary_entries(Cur', now').ret.entries =
                load_diary_entries(Cur, now).ret.entries]_vars

\* C9: a refused request leaves the fixed-name backup, the timestamped
\* backups and the entries load returns as they were, and the primary file
\* as its load left it: as it was, but for an absent file initialised to
\* the empty document and an unparseable one restored from the fixed-name
\* backup.
RefusedChangesOnlyByLoad ==
    [][Refused(last') =>
        /\ Content(primary') =
                Content(load_diary_entries(Cur, now).s.primary)
        /\ Parses(primary) => Content(primary') = Content(primary)
        /\ backup' = backup
        /\ tsbackups' = tsbackups
        /\ load_diary_entries(Cur', now').ret.entries =
                load_diary_entries(Cur, now).ret.entries]_vars

\* A create was refused by validation while the cache held the diary.
RefusedChangesOnlyByLoadWitness ==
    /\ Refused(last)
    /\ last.op = "create"
    /\ Parses(primary)
    /\ Persisted.entries # <<>>
    /\ cache.data = primary.data

\* The primary file is unparseable and the fixed-name backup parses.
Recoverable == primary.exists /\ ~Parses(primary) /\ Parses(backup)

\* The archive diary_data.json.corrupted_<second of now> holds the data d.
Archived(files, d) ==
    \E a \in files : a.name = SecondOf(now) /\ a.data = d

\* C10 as stated: with an unparseable primary file and a valid fixed-name
\* backup, load recovers once and returns the backup's contents; afterwards
\* the primary file equals the backup and an archive named for the time of
\* the recovery holds the unparseable content.
LoadRecovers ==
    [][(last'.op = "load" /\ Recoverable) =>
        /\ last'.path = "recovered"
        /\ last'.ok
        /\ last'.ids = IdsOf(backup.data.doc.entries)
        /\ primary' = backup
        /\ backup' = backup
        /\ Archived(archives', primary.data)]_vars

\* C10: with an unparseable primary file and a valid fixed-name backup, a
\* load that the cache does not serve recovers once and returns the backup's
\* contents; afterwards the primary file equals the backup and an archive
\* named for the time of the recovery holds the unparseable content.
UncachedLoadRecovers ==
    [][(last'.op = "load" /\ Recoverable /\ ~CacheIsFresh(Cur, now)) =>
        /\ last'.path = "recovered"
        /\ last'.ok
        /\ last'.ids = IdsOf(backup.data.doc.entries)
        /\ primary' = backup
        /\ backup' = backup
        /\ Archived(archives', primary.data)
        /\ archives' = Put(archives, SecondOf(now), primary)]_vars

\* A load has recovered a diary with an entry, and the archive exists.
UncachedLoadRecoversWitness ==
    /\ last.op = "load"
    /\ last.path = "recovered"
    /\ last.ids # <<>>
    /\ primary = backup
    /\ Archived(archives, Bad("garbage"))

\* A save is past its copies: the temporary file is being written, is
\* about to replace the primary file, or has, with the cache yet to go.
Saving == pc \in {"dump", "replace", "invalidate"}

\* C7: at every step of a save from the write of the temporary file to the
\* invalidation of the cache, the primary file holds the whole document of
\* before the save or the whole document the save writes, and a load in
\* between never finds an unparseable primary file.
PrimaryAlwaysWhole ==
    /\ Saving =>
        /\ Parses(primary)
        /\ primary.data = IF pc = "invalidate" THEN Json(job.doc)
                          ELSE job.pre
    /\ (pc # "idle" /\ last.op = "load") =>
        /\ last.path \in {"cache", "disk"}
        /\ last.ids \in {IdsOf(job.pre.doc.entries),
                          IdsOf(job.doc.entries)}

\* A load between the write of the temporary file and the replace read the
\* primary file from disk while the temporary file held a part.
PrimaryAlwaysWholeWitness ==
    /\ pc = "dump"
    /\ ~Parses(tmp) /\ tmp.exists
    /\ last.op = "load"
    /\ last.path = "disk"
    /\ job.pre.doc.entries # <<>>

\* The primary file is unparseable and no fixed-name backup can restore it.
Unrecoverable == primary.exists /\ ~Parses(primary) /\ ~Parses(backup)

\* C11 as stated: with an unparseable primary file and no parseable
\* fixed-name backup, load returns a document of no entries whose metadata
\* carries an error marker, and leaves the primary file as it is.
LoadReportsError ==
    [][(last'.op = "load" /\ Unrecoverable) =>
        /\ last'.path = "error"
        /\ ~last'.ok
        /\ last'.error # "none"
        /\ last'.ids = <<>>
        /\ primary' = primary]_vars

\* C11: with an unparseable primary file and no parseable fixed-name
\* backup, a load that the cache does not serve returns a document of no
\* entries whose metadata carries an error marker; served from the cache or
\* not, the load leaves the primary file as it is.
UncachedLoadReportsError ==
    [][(last'.op = "load" /\ Unrecoverable) =>
        /\ primary' = primary
        /\ backup' = backup
        /\ archives' = archives
        /\ ~CacheIsFresh(Cur, now) =>
            /\ last'.path = "error"
            /\ ~last'.ok
            /\ last'.error # "none"
            /\ last'.ids = <<>>]_vars

\* A load has returned the error document while the fixed-name backup
\* exists and is unparseable as well.
UncachedLoadReportsErrorWitness ==
    /\ last.op = "load"
    /\ last.path = "error"
    /\ ~Parses(primary)
    /\ backup.exists /\ ~Parses(backup)

\* A recovery has left the primary file, the archives and the cache alone.
NoEffect ==
    /\ primary' = primary
    /\ archives' = archives
    /\ cache' = cache
    /\ backup' = backup
    /\ tsbackups' = tsbackups

\* C12: a recovery whose chosen backup fails validation (json.load rejects
\* it), be it the fixed-name backup or a timestamped one, returns failure
\* and leaves the primary file untouched, creates no archive, and does not
\* invalidate the cache.
RecoverRefusedHasNoEffect ==
    [][/\ (last'.op = "recover" /\ backup.exists /\ ~Parses(backup)) =>
            ~last'.ok /\ NoEffect
       /\ (/\ last'.op = "recover_timestamped"
           /\ \E b \in tsbackups : b.name = last'.id /\ ~Parses(AsFile(b))) =>
            ~last'.ok /\ NoEffect]_vars

\* A recovery from an unparseable timestamped backup was refused while the
\* cache held the diary.
RecoverRefusedHasNoEffectWitness ==
    /\ last.op = "recover_timestamped"
    /\ ~last.ok
    /\ \E b \in tsbackups : b.name = last.id /\ ~Parses(AsFile(b))
    /\ cache.data.kind = "doc"
    /\ Parses(primary)
    /\ archives = {}

\* C13: a recovery never copies over the primary file a backup that parses
\* and breaks the diary structure.
RecoverValidatesStructure ==
    [][(last'.op \in {"recover", "recover_timestamped"} /\ last'.ok) =>
        validate_diary_data_structure(primary'.data.doc)]_vars

\* The request has just made a timestamped backup.
Snapshot(res) ==
    \/ res.op = "create" /\ res.error \in {"none", "File system error"}
                          /\ "tsbackup" \notin res.faults
    \/ res.op = "backup" /\ res.ok /\ "tsbackup" \notin res.faults

\* The timestamped backups that were there when the cleanup began, as far
\* as the two states show them: the old ones not overwritten, and the new
\* one if it was kept.
Existed ==
    LET new == tsbackups' \ tsbackups
    IN  {b \in tsbackups : \A n \in new : n.name # b.name} \cup new

\* C14: right after a snapshot that makes a timestamped backup, at most
\* max_backups timestamped backups exist, as many as there were up to that
\* number, and none that was removed is more recently modified than one
\* that was kept.
RetentionKeepsNewest ==
    [][Snapshot(last') =>
        /\ Cardinality(tsbackups') <= max_backups
        /\ Cardinality(tsbackups') = Min(max_backups, Cardinality(Existed))
        /\ tsbackups' \subseteq Existed
        /\ \A kept \in tsbackups', gone \in Existed \ tsbackups' :
                kept.mtime >= gone.mtime]_vars

\* A snapshot on request has just pruned the backups to max_backups, and
\* the backup it made is among those kept.
RetentionKeepsNewestWitness ==
    /\ last.op = "backup"
    /\ Snapshot(last)
    /\ Cardinality(tsbackups) = max_backups
    /\ \E b \in tsbackups : b.name = SecondOf(now)
    /\ \E k \in 2..MaxOldBackups : OldBackup(k) \in tsbackups
    /\ OldBackup(1) \notin tsbackups

\* The per_page parameters asked for: below the range, not given, the
\* smallest, one that divides no diary evenly, and above the range.
PageSizes == {-1, 0, 1, 3, MaxPerPage + 1}

Crops == {"", "tomato", "KALE"}

Query(p, pp, c) == [page |-> p, per_page |-> pp, crop_type |-> c]

\* The ids of the entries of the document a crop_type filter lets through.
Matching(c) ==
    {Persisted.entries[i].id :
        i \in {j \in 1..Len(Persisted.entries) :
                c = "" \/ Lower(Persisted.entries[j].crop_type) = Lower(c)}}

\* The pages 1..total_pages of the listing, as get_diary_entries returns
\* them.
Pages(pp, c) ==
    LET first == Paginate(Persisted.entries, Query(1, pp, c))
    IN  [p \in 1..first.total_pages |->
            Paginate(Persisted.entries, Query(p, pp, c))]

RECURSIVE SumReturned(_)
SumReturned(pages) ==
    IF pages = <<>> THEN 0
    ELSE Head(pages).returned_entries + SumReturned(Tail(pages))

OnPage(id, page) ==
    page.ok /\ \E i \in 1..Len(page.entries) : page.entries[i].id = id

\* C15: for every page size and filter, the pages 1..total_pages of the
\* listing all succeed, their returned_entries sum to the number of
\* matching entries, every matching entry is on exactly one of them, and
\* no other entry is on any.
PagesPartition ==
    Parses(primary) =>
        \A pp \in PageSizes, c \in Crops :
            LET pages == Pages(pp, c)
            IN  /\ \A p \in DOMAIN pages : pages[p].ok
                /\ pages[1].total_entries = Cardinality(Matching(c))
                /\ SumReturned(pages) = Cardinality(Matching(c))
                /\ \A id \in Matching(c) :
                        Cardinality({p \in DOMAIN pages :
                                        OnPage(id, pages[p])}) = 1
                /\ \A id \in Matching("") \ Matching(c), p \in DOMAIN pages :
                        ~OnPage(id, pages[p])

\* A listing has just returned a later page of a diary of more than ten
\* entries: the newest entry is not on it.
PagesPartitionWitness ==
    /\ last.op = "list"
    /\ last.ok
    /\ last.ids # <<>>
    /\ Parses(primary)
    /\ Len(Persisted.entries) > DefaultPerPage
    /\ \A i \in 1..Len(last.ids), j \in 1..Len(Persisted.entries) :
            Persisted.entries[j].timestamp >= 0
                => last.ids[i] # Persisted.entries[j].id
    /\ \E j \in 1..Len(Persisted.entries) :
            Persisted.entries[j].timestamp >= 0

\* C16: a listing refuses a page exactly when the page lies beyond
\* total_pages and at least one entry matches; when none matches, every
\* page succeeds with no entries and total_pages = 1.
PageRefusedOnlyBeyondEntries ==
    Parses(primary) =>
        \A p \in 0..(MaxPage + 1), pp \in PageSizes, c \in Crops :
            LET res == Paginate(Persisted.entries, Query(p, pp, c))
                n == Cardinality(Matching(c))
                page == IF p = 0 THEN 1 ELSE p
            IN  /\ ~res.ok <=> (page > res.total_pages /\ n >= 1)
                /\ n >= 1 => res.total_pages * res.per_page >= n
                /\ n >= 1 => (res.total_pages - 1) * res.per_page < n
                /\ n = 0 => /\ res.ok
                            /\ res.entries = <<>>
                            /\ res.returned_entries = 0
                            /\ res.total_pages = 1

\* A listing of a diary with entries has just refused a page, and a
\* filter that matches none of its entries would have been served.
PageRefusedOnlyBeyondEntriesWitness ==
    /\ last.op = "list"
    /\ ~last.ok
    /\ last.error = "Page does not exist"
    /\ Parses(primary)
    /\ Matching("") # {}
    /\ \E c \in Crops : Matching(c) = {}

\* The rules an entry breaks, each named by the message that reports it.
Broken(e) ==
    {r \in {"Crop type is required", "Observations are required",
            "Invalid date format", "Entry date cannot be in the future",
            "Crop type must be 100 characters or less",
            "Growth stage must be 50 characters or less",
            "Observations must be 2000 characters or less",
            "Weather description must be 200 characters or less",
            "Location must be 200 characters or less",
            "User notes must be 1000 characters or less",
            "Actions taken must be a list",
            "Maximum 20 actions allowed per entry",
            "Each action must be a string of 100 characters or less",
            "Photos must be a list",
            "Maximum 10 photos allowed per entry",
            "Each photo path must be a string of 500 characters or less"} :
        CASE r = "Crop type is required" -> e.crop_type.blank
          [] r = "Observations are required" -> e.observations.blank
          [] r = "Invalid date format" ->
                e.date \notin {"", "today-1", "today", "today+1"}
          [] r = "Entry date cannot be in the future" -> e.date = "today+1"
          [] r = "Crop type must be 100 characters or less" ->
                e.crop_type.len >= MaxCropType + 1
          [] r = "Growth stage must be 50 characters or less" ->
                e.growth_stage.len >= MaxGrowthStage + 1
          [] r = "Observations must be 2000 characters or less" ->
                e.observations.len >= MaxObservations + 1
          [] r = "Weather description must be 200 characters or less" ->
                e.weather.len >= MaxWeather + 1
          [] r = "Location must be 200 characters or less" ->
                e.location.len >= MaxLocation + 1
          [] r = "User notes must be 1000 characters or less" ->
                e.user_notes.len >= MaxUserNotes + 1
          [] r = "Actions taken must be a list" -> ~e.actions_taken.is_list
          [] r = "Maximum 20 actions allowed per entry" ->
                e.actions_taken.count >= MaxActions + 1
          [] r = "Each action must be a string of 100 characters or less" ->
                /\ e.actions_taken.count >= 1
                /\ \/ ~e.actions_taken.all_str
                   \/ e.actions_taken.longest >= MaxActionLen + 1
          [] r = "Photos must be a list" -> ~e.photos.is_list
          [] r = "Maximum 10 photos allowed per entry" ->
                e.photos.count >= MaxPhotos + 1
          [] r = "Each photo path must be a string of 500 characters or less" ->
                /\ e.photos.count >= 1
                /\ \/ ~e.photos.all_str
                   \/ e.photos.longest >= MaxPhotoLen + 1}

Reported == {job.errors[i] : i \in 1..Len(job.errors)}

\* C17: the validator's list is empty exactly when the entry breaks no
\* rule, and otherwise holds a violation for every rule the entry breaks.
EveryViolationReported ==
    pc = "validated" =>
        /\ job.errors = <<>> <=> Broken(job.entry) = {}
        /\ Reported = Broken(job.entry)

\* The entry of the document with that id.
Stored(doc, id) == doc.entries[FindIndex(doc.entries, id)]

\* C18: after a successful update, the fields of the stored entry other
\* than id, timestamp and last_modified are those of the request, and a
\* field the request does not carry has its default; nothing of the
\* previous record is left.
UpdateReplacesWholeRecord ==
    [][\A id \in Ids, inp \in Dated :
        Update(id, inp, {}) /\ last'.ok =>
            LET e == Stored(primary'.data.doc, id)
            IN  /\ e.crop_type = inp.crop_type
                /\ e.observations = inp.observations
                /\ e.growth_stage = Get(inp, "growth_stage", "")
                /\ e.date \in IF "date" \in DOMAIN inp THEN {inp.date}
                              ELSE {"", "today"}]_vars

\* C19: every entry of the persisted document carries the category
\* snapshot of its crop_type and a growth stage snapshot.
EntriesCarrySnapshots ==
    Parses(primary) =>
        \A i \in 1..Len(Persisted.entries) :
            LET e == Persisted.entries[i]
            IN  /\ e.crop_category = get_crop_category(e.crop_type)
                /\ e.growth_stage_info
                        = get_growth_stage_info(e.growth_stage)

\* C20: an export in the native form fails when its load reports an error
\* marker; otherwise it returns the entries of the document its load
\* returns, in that order and with those values, and their count as
\* total_entries; read from the file, that document is the one the primary
\* file holds.
ExportReturnsDocument ==
    [][\A m \in BOOLEAN :
        Export("json", m) =>
            LET L == load_diary_entries(Cur, now)
                o == export_diary_data(Cur, "json", m)
            IN  /\ L.ret.error # "none" => ~o.success /\ ~last'.ok
                /\ L.ret.error = "none" =>
                    /\ o.success /\ last'.ok
                    /\ o.data.entries = L.ret.entries
                    /\ o.data.total_entries = Len(L.ret.entries)
                    /\ last'.ids = IdsOf(L.ret.entries)
                    /\ L.path # "cache" =>
                            o.data.entries = primary'.data.doc.entries]_vars

\* An export has just returned a diary of two entries, one of them
\* updated.
ExportReturnsDocumentWitness ==
    /\ last.op = "export"
    /\ last.ok
    /\ Len(last.ids) >= 2
    /\ Parses(primary)
    /\ \E i \in 1..Len(Persisted.entries) :
            Persisted.entries[i].last_modified # None

Has(doc, id) == \E i \in 1..Len(doc.entries) : doc.entries[i].id = id

\* Both concurrent creates have returned success.
BothCreated == \A c \in Callers : pc[c] = "done" /\ job.out[c] = "ok"

\* C21: when two concurrent creates have both returned success, the
\* persisted document holds at least one of the two entries, and it holds
\* both exactly when one of the callers worked on a document that had the
\* other's entry; otherwise one entry is lost.
LostUpdateUnlessSeen ==
    BothCreated =>
        /\ Parses(primary)
        /\ \E c \in Callers : Has(Persisted, job.id[c])
        /\ (\A c \in Callers : Has(Persisted, job.id[c]))
            <=> (\E o \in Callers :
                    \A c \in Callers : Has(job.heap[o], job.id[c]))

\* Both creates have returned success and the persisted document holds
\* only one of the two entries.
LostUpdateUnlessSeenWitness ==
    /\ BothCreated
    /\ Parses(primary)
    /\ Cardinality({c \in Callers : Has(Persisted, job.id[c])}) = 1

\* One of the four operations has just been called.
Called == job # NoJob /\ last.op = job.op

\* C22 as stated: no call raises, and create, recover and export return
\* success = false whenever a fault has struck.
FaultNeverSucceeds ==
    Called =>
        /\ ~job.raised
        /\ job.op # "load" /\ job.struck # {} => ~last.ok

\* The faults a call cannot complete with; a failed backup copy and a
\* failed write of the initial file are got over.
Fatal == {"read", "archive", "restore", "tmp", "replace"}

\* C22: no call raises, and create, recover and export return success =
\* false whenever a fault has struck that the operation cannot complete
\* with; load then returns the error document, or the cached one.
FatalFaultNeverSucceeds ==
    Called =>
        /\ ~job.raised
        /\ job.op # "load" /\ job.struck \cap Fatal # {} => ~last.ok
        /\ job.op = "load" /\ job.struck \cap Fatal # {} =>
                last.error # "none"

\* A create has just failed on a fault of its write, and returned.
FatalFaultNeverSucceedsWitness ==
    /\ Called
    /\ job.op = "create"
    /\ job.struck \cap {"tmp", "replace"} # {}
    /\ ~job.raised
    /\ ~last.ok

\* ------------------------------------------------- C23: when the cache serves
\* What a load finds before it runs, spelled out from the three conditions:
\* a document is cached, it was cached less than CACHE_DURATION seconds ago,
\* and the primary file's modification time is the one recorded with it.
Populated == cache.data # NoData /\ cache.cache_time # None

Young == now - cache.cache_time < CACHE_DURATION * TicksPerSecond

Unmodified ==
    cache.last_modified = (IF primary.exists THEN primary.mtime ELSE None)

\* C23: a load returns the cached document only when the cache is populated,
\* younger than CACHE_DURATION and recorded at the file's current
\* modification time, and then it leaves the cache as it is; in every other
\* case it goes to the file, and a plain read that succeeds stores the
\* document read, the file's modification time and the instant of the load.
CacheServedOnlyWhenFresh ==
    [][Load =>
        /\ (last'.path = "cache") <=> (Populated /\ Young /\ Unmodified)
        /\ last'.path = "cache" =>
                /\ last'.ids = IdsOf(cache.data.doc.entries)
                /\ cache' = cache
        /\ last'.path # "cache" =>
                last'.path = (IF ~primary.exists THEN "created"
                              ELSE IF ~Parses(primary)
                              THEN (IF Parses(backup) THEN "recovered"
                                    ELSE "error")
                              ELSE "disk")
        /\ last'.path = "disk" =>
                /\ last'.ids = IdsOf(primary.data.doc.entries)
                /\ cache' = [data |-> primary.data,
                             last_modified |-> primary.mtime,
                             cache_time |-> now]]_vars

\* A load found the cached document exactly CACHE_DURATION old and read the
\* file again.
CacheServedOnlyWhenFreshWitness ==
    /\ last.op = "load" /\ last.path = "disk"
    /\ now >= CACHE_DURATION * TicksPerSecond
    /\ cache.cache_time = now
    /\ cache.data = primary.data
    /\ Len(primary.data.doc.entries) > 0

\* ------------------------------------------- C24: the backup is one behind
\* A create, update or delete that succeeded, with its copy to the fixed-name
\* backup made.
MutatedWithBackup ==
    /\ last'.op \in Mutations /\ last'.ok
    /\ "backup" \notin last'.faults

Surviving == SelectSeq(job.created, LAMBDA id : id \notin deleted)

\* C25: with one request after the other and no faults, the ids in the
\* persisted document are the ids created less the ids deleted, in the order
\* in which they were created.
PersistedIsCreatedLessDeleted ==
    primary.exists =>
        /\ Parses(primary)
        /\ IdsOf(Persisted.entries) = Surviving

\* Three entries were created and the middle one deleted: the other two are
\* persisted in their order.
PersistedIsCreatedLessDeletedWitness ==
    /\ Succeeded("delete")
    /\ Len(job.created) >= 3
    /\ last.id = job.created[2]
    /\ Len(Surviving) >= 2
    /\ Parses(primary)
    /\ IdsOf(Persisted.entries) = Surviving

\* --------------------------------------------- C26: the entries from offset
\* The filtered entries, newest first, that a limit and offset request asks
\* for: the positions offset .. offset + limit - 1, counted from 0.
Window ==
    LET filtered == SortDesc(IF job.crop_type # ""
                             THEN Filter(Persisted.entries, job.crop_type)
                             ELSE Persisted.entries)
        limit == Min(MaxPerPage, Max(1, job.limit))
    IN  IdsOf(SubSeq(filtered, job.offset + 1,
                     Min(job.offset + limit, Len(filtered))))

\* C26: a list by limit and offset returns the entries at the positions
\* offset .. offset + limit - 1 of the filtered result, newest first, with
\* the limit clamped to 1..100, for every offset from 0 on.
LegacyListReturnsWindow ==
    last.op = "list_legacy" => last.ok /\ last.ids = Window

\* ----------------------------------------------------- C27: cache coherence
\* C27: whenever a load is served from the cache, the document it returns
\* has the entries of the document persisted in the primary file, after any
\* sequence of loads, creates, updates and deletes, failed ones included.
CacheServesPersisted ==
    (last.op = "load" /\ last.path = "cache") =>
        /\ Parses(primary)
        /\ cache.data.doc.entries = Persisted.entries

\* ------------------------------------- C28: what is persisted is well-formed
\* C28: from an absent or a structurally valid primary file, the document a
\* successful create, update or delete persists passes the structural
\* validation of the diary; the dates validate_entry_data accepts are dates
\* the structural check accepts.
PersistedIsStructurallyValid ==
    (last.op \in Mutations /\ last.ok) =>
        /\ Parses(primary)
        /\ validate_diary_data_structure(Persisted)

\* ------------------------------- C29: nothing is written over a corrupt file
\* What a create, update or delete answers when there is no document to
\* work on.
RefusedForStorage ==
    /\ ~last'.ok
    /\ last'.error = (IF last'.op = "create" THEN "Data storage error"
                      ELSE "Entry not found")

FilesUntouched ==
    /\ primary' = primary
    /\ backup' = backup
    /\ tsbackups' = tsbackups

\* C29 as stated: while the primary file is unparseable and there is no
\* usable fixed-name backup, a create, update or delete changes neither the
\* primary file nor a backup; create fails with the storage error, update
\* and delete answer that the entry is not found.
CorruptPrimaryIsNotWritten ==
    [][(last'.op \in Mutations /\ Unrecoverable) =>
            FilesUntouched /\ RefusedForStorage]_vars

\* C29 for an operation whose load goes to the file.
CorruptPrimaryIsNotWrittenUncached ==
    [][(last'.op \in Mutations /\ Unrecoverable
            /\ ~CacheIsFresh(Cur, now)) =>
            FilesUntouched /\ RefusedForStorage]_vars

\* A create was refused over an unparseable primary file without a backup.
CorruptPrimaryIsNotWrittenUncachedWitness ==
    /\ last.op = "create" /\ ~last.ok
    /\ last.error = "Data storage error"
    /\ primary.exists /\ ~Parses(primary)
    /\ ~Parses(backup)
    /\ tsbackups = {}

\* ------------------------------------- C30: a created entry survives damage
\* C30: when a create has succeeded and the primary file becomes unparseable
\* before any other operation, the document the next load returns, restored
\* from the fixed-name backup, holds the entry created.
CreatedSurvivesCorruption ==
    [][(last.op = "corrupt_after_create" /\ last'.op = "load") =>
            \E i \in 1..Len(last'.ids) : last'.ids[i] = last.id]_vars

=============================================================================
